---------------------------- MODULE Spec2Model ----------------------------
(***************************************************************************)
(* Streaming Electrum synchronisation: derivation tracker, sync engine,    *)
(* orchestrator and asynchronous protocol adapter.                         *)
(*                                                                         *)
(* Eleven specifications share the variables below:                        *)
(*   SpecTracker  the DerivedSpkTracker alone, driven through its API      *)
(*   SpecEngine   the SyncEngine (owning a tracker) driven by events       *)
(*   SpecSystem   orchestrator + engine + adapter (writer, reader) against *)
(*                an Electrum server                                       *)
(*   SpecBootstrap  SpecSystem with the initial-sync callback registered   *)
(*   SpecFaulty   SpecSystem with responses that may fail to decode        *)
(*   SpecPush     SpecSystem with notifications nobody subscribed to       *)
(*   SpecDrop     SpecSystem with lines the reader task drops              *)
(*   SpecOrder    SpecSystem with the writer's flush taken command by      *)
(*                command                                                  *)
(*   SpecTwin     two SyncEngine instances fed the same events             *)
(*   SpecWire     the scripthash encoding of the adapter, byte by byte      *)
(*   SpecConnect  ElectrumAdapter::new and the start of its background task *)
(***************************************************************************)
EXTENDS Integers, Sequences, FiniteSets, TLC

VARIABLES
    spk_tracker,            \* DerivedSpkTracker { lookahead, descriptors, derived_spks, derived_spks_rev }
    lastCall,               \* the last tracker API call and what it returned
    spk_index_by_hash,      \* EngineState.spk_index_by_hash
    script_by_hash,         \* EngineState.script_by_hash
    subscribed,             \* EngineState.subscribed
    histories,              \* EngineState.histories
    connected,              \* EngineState.connected
    panicked,               \* the thread that owns the engine has panicked (unwrap on None)
    lastEvent,              \* the last engine event, the state it met and the commands returned
    state,                  \* adapter SharedState behind Arc<Mutex<..>>
    NEXT_ID,                \* adapter: the JSON-RPC id counter
    poisoned,               \* adapter: a task panicked while holding the SharedState mutex
    server,                 \* the Electrum server: histories, subscriptions, unanswered requests
    s2c,                    \* lines sent by the server that the reader task has not read yet
    orch,                   \* SyncOrchestrator { on_initial_sync, pending_initial_syncs } and its position
    wallet,                 \* txids applied to the wallet
    lastFetch,              \* the last poll of the orchestrator: what fetch_history_txs returned, and when
    twin,                   \* SpecTwin: the engine's timestamps, and a second SyncEngine fed the same events
    wire,                   \* SpecWire: the last scripthash string sent or received, and what it was parsed to
    conn,                   \* SpecConnect: the caller of ElectrumAdapter::new, the background task, mutex and condvar
    writer                  \* SpecOrder: flush_outgoing's drained commands not yet sent, and the requests written so far

trackerVars == <<spk_tracker, lastCall>>
engineVars  == <<spk_index_by_hash, script_by_hash, subscribed, histories, connected>>
systemVars  == <<state, NEXT_ID, poisoned, server, s2c, orch, wallet, lastFetch, writer>>
vars == <<spk_tracker, lastCall, spk_index_by_hash, script_by_hash, subscribed,
          histories, connected, panicked, lastEvent,
          state, NEXT_ID, poisoned, server, s2c, orch, wallet, lastFetch, twin, wire, conn, writer>>

\* ------------------------------------------------------------------ bounds
MaxLookahead == 2       \* lookaheads 0..MaxLookahead are tried by SpecTracker
MaxNextIndex == 1       \* next_index arguments of insert_descriptor
MaxUsedIndex == 2       \* index arguments of mark_used_and_derive_new
MaxDerivedIndex == 3    \* SpecEngine: histories arrive only while derivation stays <= this index
MaxHistories == 2       \* SpecEngine: number of scripthashes that receive a history
MaxSysLookahead == 0    \* SpecSystem: lookaheads 0..MaxSysLookahead
MaxServerTxs == 2       \* SpecSystem: history entries the server learns in a run
MaxRequestId == 7       \* SpecSystem: the writer sends requests while their ids stay <= this
MaxUndecodable == 1     \* SpecFaulty: responses of the server that do not decode
MaxBootstrapRequestId == 11   \* SpecBootstrap: as MaxRequestId
MaxTwinLookahead == 1   \* SpecTwin: lookaheads 0..MaxTwinLookahead
MaxTwinIndex == 2       \* SpecTwin: events name, and derivation stays within, indices 0..MaxTwinIndex
MaxClock == 1           \* SpecTwin: the readings of the clock are 0..MaxClock
WireHashLen == 2        \* SpecWire: bytes of a hash (32 in the code)
MaxWireIndex == 2       \* SpecWire: scripts of the indices 0..MaxWireIndex are subscribed
MaxSpuriousWakeups == 2 \* SpecConnect: spurious wake-ups of the condition variable
MaxDropRequestId == 5   \* SpecDrop: the writer sends requests while their ids stay <= this
MaxOrderRequestId == 6  \* SpecOrder: as MaxDropRequestId
MaxPushes == 1          \* SpecPush: notifications the server pushes for a scripthash nobody subscribed

\* ------------------------------------------------------------------ helpers
\* Option<T>: None is the empty sequence, Some(x) the one-element sequence
None == << >>
Some(x) == <<x>>

Keychains == {"external", "internal"}
\* BTreeMap order of the String keychain ids
KeychainRank(k) == IF k = "external" THEN 0 ELSE 1

Descriptors == {"D1", "D2"}

\* Restriction and override of functions used as maps
Restrict(f, S) == [x \in S |-> f[x]]
MapPut(f, k, v) == [x \in (DOMAIN f) \cup {k} |-> IF x = k THEN v ELSE f[x]]
MapRemove(f, k) == [x \in (DOMAIN f) \ {k} |-> f[x]]

\* map.get(k).unwrap_or(d)
Lookup(f, k, d) == IF k \in DOMAIN f THEN f[k] ELSE d

SetMax(S) == CHOOSE x \in S : \A y \in S : y <= x

\* descriptor.at_derivation_index(index).script_pubkey(): the same descriptor
\* gives the same script at the same index, different descriptors or indices
\* give different scripts.
DeriveSpk(d, i) == <<"spk", d, i>>

\* sha256::Hash::hash(spk.as_bytes()): collision free
Sha256(spk) == <<"sha256", spk>>

\* ------------------------------------------------------------------ tracker
NewTracker(l) ==
    [lookahead |-> l,
     descriptors |-> << >>,
     derived_spks |-> << >>,
     derived_spks_rev |-> << >>]

\* add_derived_spk: derive and store one index unless the forward map has it
AddDerivedSpk(T, k, i) ==
    IF <<k, i>> \in DOMAIN T.derived_spks
    THEN [t |-> T, ret |-> None]
    ELSE LET spk  == DeriveSpk(T.descriptors[k], i)
             hash == Sha256(spk)
         IN  [t |-> [T EXCEPT !.derived_spks = MapPut(@, <<k, i>>, [hash |-> hash, script |-> spk]),
                              !.derived_spks_rev = MapPut(@, hash, <<k, i>>)],
              ret |-> Some([hash |-> hash, script |-> spk])]

\* clear_keychain: drop the forward entries of k and the reverse entry of each
\* removed hash
ClearKeychain(T, k) ==
    LET removed == {p \in DOMAIN T.derived_spks : p[1] = k}
        hashes  == {T.derived_spks[p].hash : p \in removed}
    IN  [T EXCEPT !.derived_spks = Restrict(@, (DOMAIN @) \ removed),
                  !.derived_spks_rev = Restrict(@, (DOMAIN @) \ hashes)]

\* (lo..=hi).filter_map(|i| add_derived_spk(k, i)).collect()
RECURSIVE DeriveAll(_, _, _, _, _)
DeriveAll(T, k, lo, hi, acc) ==
    IF lo > hi THEN [t |-> T, ret |-> acc]
    ELSE LET r == AddDerivedSpk(T, k, lo)
         IN  DeriveAll(r.t, k, lo + 1, hi,
                       IF r.ret = None THEN acc ELSE Append(acc, r.ret[1]))

\* for i in lo..=hi { if let Some(pair) = add_derived_spk(k, i) {push} else {break} }
RECURSIVE DeriveUntilPresent(_, _, _, _, _)
DeriveUntilPresent(T, k, lo, hi, acc) ==
    IF lo > hi THEN [t |-> T, ret |-> acc]
    ELSE LET r == AddDerivedSpk(T, k, lo)
         IN  IF r.ret = None THEN [t |-> T, ret |-> acc]
             ELSE DeriveUntilPresent(r.t, k, lo + 1, hi, Append(acc, r.ret[1]))

\* Faulty variant: the early return for an identical descriptor is missing
InsertDescriptorNoEarlyReturn(T, k, d, n) ==
    LET T1 == [T EXCEPT !.descriptors = MapPut(@, k, d)]
        T2 == IF k \in DOMAIN T.descriptors THEN ClearKeychain(T1, k) ELSE T1
    IN  DeriveAll(T2, k, 0, n + T.lookahead, << >>)

\* Faulty variant: an identical descriptor is not replaced, but the window
\* [0, next_index + lookahead] is derived again on top of what the keychain holds
InsertDescriptorTopsUpOnSame(T, k, d, n) ==
    LET T1 == [T EXCEPT !.descriptors = MapPut(@, k, d)]
        T2 == IF k \in DOMAIN T.descriptors /\ T.descriptors[k] # d
              THEN ClearKeychain(T1, k) ELSE T1
    IN  DeriveAll(T2, k, 0, n + T.lookahead, << >>)

\* Faulty variant: the window is the half-open range 0..next_index + lookahead
InsertDescriptorExclusiveRange(T, k, d, n) ==
    LET T1 == [T EXCEPT !.descriptors = MapPut(@, k, d)]
    IN  IF k \in DOMAIN T.descriptors /\ T.descriptors[k] = d
        THEN [t |-> T1, ret |-> << >>]
        ELSE LET T2 == IF k \in DOMAIN T.descriptors THEN ClearKeychain(T1, k) ELSE T1
             IN  DeriveAll(T2, k, 0, n + T.lookahead - 1, << >>)

\* insert_descriptor
InsertDescriptor(T, k, d, n) ==
    LET T1 == [T EXCEPT !.descriptors = MapPut(@, k, d)]
    IN  IF k \in DOMAIN T.descriptors /\ T.descriptors[k] = d
        THEN [t |-> T1, ret |-> << >>]
        ELSE LET T2 == IF k \in DOMAIN T.descriptors THEN ClearKeychain(T1, k) ELSE T1
             IN  DeriveAll(T2, k, 0, n + T.lookahead, << >>)

\* derived indices of keychain k
IndicesOf(T, k) == {p[2] : p \in {q \in DOMAIN T.derived_spks : q[1] = k}}

\* Faulty variant: the window starts after the largest index the keychain holds
MarkUsedExtendsFromLast(T, k, index) ==
    LET held == IndicesOf(T, k) \cup {index}
        next_index == SetMax(held) + 1
    IN  DeriveUntilPresent(T, k, next_index, next_index + T.lookahead, << >>)

\* mark_used_and_derive_new
MarkUsedAndDeriveNew(T, k, index) ==
    LET next_index == index + 1
    IN  DeriveUntilPresent(T, k, next_index, next_index + T.lookahead, << >>)

\* index_of_spk_hash
IndexOfSpkHash(T, h) ==
    IF h \in DOMAIN T.derived_spks_rev THEN Some(T.derived_spks_rev[h]) ELSE None

\* all_spks: the forward map's values in (keychain, index) ascending order
RECURSIVE SortedPairs(_)
SortedPairs(S) ==
    IF S = {} THEN << >>
    ELSE LET m == CHOOSE p \in S : \A q \in S :
                      \/ KeychainRank(p[1]) < KeychainRank(q[1])
                      \/ (p[1] = q[1] /\ p[2] <= q[2])
         IN  <<m>> \o SortedPairs(S \ {m})

AllSpks(T) ==
    LET ps == SortedPairs(DOMAIN T.derived_spks)
    IN  [n \in 1..Len(ps) |-> T.derived_spks[ps[n]]]


\* ------------------------------------------------------------------ engine
\* HistoryTx { tx, height }; a transaction is known by its txid
HistoryTx(id, h) == [txid |-> id, height |-> h]
ComputeTxid(t) == t.txid

\* EngineCommand
FetchHistory(h) == [cmd |-> "FetchHistory", hash |-> h]
Subscribe(h) == [cmd |-> "Subscribe", hash |-> h]
ApplyTransactions(script, txs) == [cmd |-> "ApplyTransactions", script |-> script, txs |-> txs]

\* EngineState as a value (the tracker is owned by the engine)
EngineState ==
    [spk_tracker |-> spk_tracker,
     spk_index_by_hash |-> spk_index_by_hash,
     script_by_hash |-> script_by_hash,
     subscribed |-> subscribed,
     histories |-> histories,
     connected |-> connected]

\* the body of on_connected's for loop over all_spks()
RECURSIVE ConnectedLoop(_, _, _)
ConnectedLoop(E, spks, cmds) ==
    IF spks = << >> THEN [e |-> E, cmds |-> cmds, panic |-> FALSE]
    ELSE LET p   == Head(spks)
             idx == IndexOfSpkHash(E.spk_tracker, p.hash)
             E1  == IF idx # None
                    THEN [E EXCEPT !.spk_index_by_hash = MapPut(@, p.hash, idx[1]),
                                   !.script_by_hash = MapPut(@, p.hash, p.script)]
                    ELSE E
             fresh == p.hash \notin E1.subscribed
             E2  == [E1 EXCEPT !.subscribed = @ \cup {p.hash}]
         IN  ConnectedLoop(E2, Tail(spks),
                           IF fresh THEN cmds \o <<FetchHistory(p.hash), Subscribe(p.hash)>>
                                    ELSE cmds)

\* Faulty variant: a reconnect forgets the subscriptions and subscribes anew
OnConnectedResubscribes(E) ==
    ConnectedLoop([E EXCEPT !.connected = TRUE, !.subscribed = {}],
                  AllSpks(E.spk_tracker), << >>)

\* on_connected
OnConnected(E) ==
    ConnectedLoop([E EXCEPT !.connected = TRUE], AllSpks(E.spk_tracker), << >>)

\* a handler that answers a change only for a subscribed scripthash
OnScripthashChangedSubscribedOnly(E, hash) ==
    [e |-> E,
     cmds |-> IF hash \in E.subscribed THEN <<FetchHistory(hash)>> ELSE << >>,
     panic |-> FALSE]

\* on_scripthash_changed
OnScripthashChanged(E, hash) ==
    [e |-> E, cmds |-> <<FetchHistory(hash)>>, panic |-> FALSE]

\* the body of on_scripthash_history's loop over the newly derived scripts:
\* every new hash is recorded under (keychain, index + 1)
RECURSIVE NewlyLoop(_, _, _, _, _)
NewlyLoop(E, newly, keychain, index, cmds) ==
    IF newly = << >> THEN [e |-> E, cmds |-> cmds]
    ELSE LET p  == Head(newly)
             E1 == [E EXCEPT !.spk_index_by_hash = MapPut(@, p.hash, <<keychain, index + 1>>),
                             !.script_by_hash = MapPut(@, p.hash, p.script)]
             fresh == p.hash \notin E1.subscribed
             E2 == [E1 EXCEPT !.subscribed = @ \cup {p.hash}]
         IN  NewlyLoop(E2, Tail(newly), keychain, index,
                       IF fresh THEN cmds \o <<FetchHistory(p.hash), Subscribe(p.hash)>>
                                ELSE cmds)

\* on_scripthash_history; script_by_hash.get(&hash).cloned().unwrap() panics
\* for a hash without a recorded script
OnScripthashHistory(E, hash, txs) ==
    LET was_empty == hash \notin DOMAIN E.histories \/ E.histories[hash] = << >>
        is_empty  == txs = << >>
        txids     == [n \in 1..Len(txs) |-> ComputeTxid(txs[n])]
        E1        == [E EXCEPT !.histories = MapPut(@, hash, txids)]
        r == IF was_empty /\ ~is_empty /\ hash \in DOMAIN E1.spk_index_by_hash
             THEN LET ki == E1.spk_index_by_hash[hash]
                      m  == MarkUsedAndDeriveNew(E1.spk_tracker, ki[1], ki[2])
                  IN  NewlyLoop([E1 EXCEPT !.spk_tracker = m.t], m.ret, ki[1], ki[2], << >>)
             ELSE [e |-> E1, cmds |-> << >>]
    IN  IF hash \in DOMAIN r.e.script_by_hash
        THEN [e |-> r.e,
              cmds |-> Append(r.cmds, ApplyTransactions(r.e.script_by_hash[hash], txs)),
              panic |-> FALSE]
        ELSE [e |-> r.e, cmds |-> << >>, panic |-> TRUE]

\* SyncEngine::script_for_hash
ScriptForHash(E, h) == IF h \in DOMAIN E.script_by_hash THEN Some(E.script_by_hash[h]) ELSE None

\* the engine's fields after a handler returned r
EngineBecomes(r) ==
    /\ spk_tracker' = r.e.spk_tracker
    /\ spk_index_by_hash' = r.e.spk_index_by_hash
    /\ script_by_hash' = r.e.script_by_hash
    /\ subscribed' = r.e.subscribed
    /\ histories' = r.e.histories
    /\ connected' = r.e.connected
    /\ panicked' = r.panic

\* ------------------------------------------------------------------ adapter, orchestrator: construction
\* SharedState as ElectrumAdapter::new builds it, once the handshake set connected
NewSharedState ==
    [ready |-> << >>,
     history_cache |-> << >>,
     block_header_cache |-> << >>,
     command_queue |-> << >>,
     inflight_requests |-> << >>,
     remaining_txs |-> << >>,
     remaining_headers |-> << >>,
     headers_in_flight |-> {},
     connected |-> TRUE]

\* the id counter after the handshake's server.version took id 1
FirstRequestId == 2

\* SyncOrchestrator::new, with or without with_initial_sync_notifier.
\* on_initial_sync: the callback is there (Some). Besides the fields and the
\* position in run_forever (running), the record keeps what the callback and
\* request_history were called for:
\*   notified            how many times the callback ran
\*   bootstrap_fetches   hashes whose FetchHistory command ran while the callback was there
\*   fetching            hash -> [n, boot] for every hash between its FetchHistory
\*                       command and the feeding of its history: the number of
\*                       request_history(hash) calls so far, and whether the
\*                       command ran while the callback was there
NewOrchestrator(notifier) ==
    [on_initial_sync |-> notifier, pending_initial_syncs |-> {}, running |-> FALSE,
     notified |-> 0, bootstrap_fetches |-> {}, fetching |-> << >>]

NoFetch == [ev |-> "none"]
NoTwin == [ev |-> "none"]
NoWire == [op |-> "none"]
NoConn == [caller |-> "none"]
NoWriter == [commands |-> << >>, written |-> << >>]

\* everything outside the tracker and the engine, at construction
SystemNew ==
    /\ state = NewSharedState
    /\ NEXT_ID = FirstRequestId
    /\ poisoned = FALSE
    /\ server = [hist |-> << >>, subs |-> {}, pending |-> {}, answered |-> {}, garbled |-> 0, pushed |-> 0]
    /\ s2c = << >>
    /\ orch = NewOrchestrator(FALSE)
    /\ wallet = {}
    /\ lastFetch = NoFetch
    /\ writer = NoWriter

\* ------------------------------------------------------------------ adapter
\* the scripthash on the wire: the hash's bytes reversed, hex encoded
EncodeScripthash(h) == <<"hex_le", h>>
DecodeScripthash(x) == x[2]
\* electrum_scripthash(script)
ElectrumScripthash(script) == EncodeScripthash(Sha256(script))

\* InternalCommand
CmdSubscribe(h, script) == [cmd |-> "Subscribe", hash |-> h, script |-> script]
CmdFetchHistory(h) == [cmd |-> "FetchHistory", hash |-> h]
CmdFetchTransaction(txid, h, height) ==
    [cmd |-> "FetchTransaction", txid |-> txid, related_hash |-> h, height |-> height]
CmdFetchBlockHeader(height, h) ==
    [cmd |-> "FetchBlockHeader", height |-> height, related_hash |-> h]

\* RequestType
ReqHistory(h) == [type |-> "History", hash |-> h]
ReqTransaction(h, height) == [type |-> "Transaction", related_hash |-> h, height |-> height]
ReqBlockHeader(height, h) == [type |-> "BlockHeader", height |-> height, related_hash |-> h]

\* SharedState::check_history_complete
CheckHistoryComplete(S, hash) ==
    LET txs_done  == Lookup(S.remaining_txs, hash, 0) = 0
        hdrs_done == Lookup(S.remaining_headers, hash, 0) = 0
    IN  IF txs_done /\ hdrs_done
        THEN [S EXCEPT !.remaining_txs = MapRemove(@, hash),
                       !.remaining_headers = MapRemove(@, hash),
                       !.ready = Append(@, hash)]
        ELSE S

\* ElectrumApi for ElectrumAdapter
RegisterScript(S, script, hash) ==
    [S EXCEPT !.command_queue = Append(@, CmdSubscribe(hash, script))]

RequestHistory(S, hash) ==
    [S EXCEPT !.command_queue = Append(@, CmdFetchHistory(hash))]

\* a miss answered with an empty history instead of None
FetchHistoryTxsEmptyOnMiss(S, hash) ==
    IF hash \in DOMAIN S.history_cache
    THEN [s |-> [S EXCEPT !.history_cache = MapRemove(@, hash)],
          ret |-> Some(S.history_cache[hash])]
    ELSE [s |-> S, ret |-> Some(<< >>)]

FetchHistoryTxs(S, hash) ==
    IF hash \in DOMAIN S.history_cache
    THEN [s |-> [S EXCEPT !.history_cache = MapRemove(@, hash)],
          ret |-> Some(S.history_cache[hash])]
    ELSE [s |-> S, ret |-> None]

PollScripthashChanged(S) ==
    IF S.ready = << >>
    THEN [s |-> S, ret |-> None]
    ELSE [s |-> [S EXCEPT !.ready = Tail(@)], ret |-> Some(Head(S.ready))]

\* a loop that sends transaction.get without recording it
RECURSIVE SendCommandsForgetsTransactions(_, _, _, _)
SendCommandsForgetsTransactions(S, id, cmds, sent) ==
    IF cmds = << >> THEN [s |-> S, next_id |-> id, sent |-> sent]
    ELSE LET c == Head(cmds)
             req == IF c.cmd = "Subscribe"
                    THEN [id |-> id, method |-> "blockchain.scripthash.subscribe",
                          param |-> ElectrumScripthash(c.script)]
                    ELSE IF c.cmd = "FetchHistory"
                    THEN [id |-> id, method |-> "blockchain.scripthash.get_history",
                          param |-> EncodeScripthash(c.hash)]
                    ELSE IF c.cmd = "FetchTransaction"
                    THEN [id |-> id, method |-> "blockchain.transaction.get", param |-> c.txid]
                    ELSE [id |-> id, method |-> "blockchain.block.header", param |-> c.height]
             S1 == IF c.cmd = "FetchHistory"
                   THEN [S EXCEPT !.inflight_requests = MapPut(@, id, ReqHistory(c.hash))]
                   ELSE IF c.cmd = "FetchBlockHeader"
                   THEN [S EXCEPT !.inflight_requests =
                             MapPut(@, id, ReqBlockHeader(c.height, c.related_hash))]
                   ELSE S
         IN  SendCommandsForgetsTransactions(S1, id + 1, Tail(cmds), sent \cup {req})

\* flush_outgoing's loop over the drained commands: every command takes the
\* next id; all but Subscribe are recorded in inflight_requests; the request
\* is written to the socket
RECURSIVE SendCommands(_, _, _, _)
SendCommands(S, id, cmds, sent) ==
    IF cmds = << >> THEN [s |-> S, next_id |-> id, sent |-> sent]
    ELSE LET c == Head(cmds)
         IN  IF c.cmd = "Subscribe"
             THEN SendCommands(S, id + 1, Tail(cmds),
                      sent \cup {[id |-> id, method |-> "blockchain.scripthash.subscribe",
                                  param |-> ElectrumScripthash(c.script)]})
             ELSE IF c.cmd = "FetchHistory"
             THEN SendCommands([S EXCEPT !.inflight_requests = MapPut(@, id, ReqHistory(c.hash))],
                      id + 1, Tail(cmds),
                      sent \cup {[id |-> id, method |-> "blockchain.scripthash.get_history",
                                  param |-> EncodeScripthash(c.hash)]})
             ELSE IF c.cmd = "FetchTransaction"
             THEN SendCommands([S EXCEPT !.inflight_requests =
                                    MapPut(@, id, ReqTransaction(c.related_hash, c.height))],
                      id + 1, Tail(cmds),
                      sent \cup {[id |-> id, method |-> "blockchain.transaction.get",
                                  param |-> c.txid]})
             ELSE SendCommands([S EXCEPT !.inflight_requests =
                                    MapPut(@, id, ReqBlockHeader(c.height, c.related_hash))],
                      id + 1, Tail(cmds),
                      sent \cup {[id |-> id, method |-> "blockchain.block.header",
                                  param |-> c.height]})

\* flush_outgoing: drain command_queue, then send
FlushOutgoing(S, id) ==
    SendCommands([S EXCEPT !.command_queue = << >>], id, S.command_queue, {})

\* the History arm's loop over a non-empty result: one FetchTransaction per
\* entry, and the confirmed heights neither cached nor in flight. An entry
\* without tx_hash makes process_message return the error there (err), with
\* what the loop pushed so far left in the queue.
RECURSIVE QueueTransactions(_, _, _, _)
QueueTransactions(S, hash, arr, needed) ==
    IF arr = << >> THEN [s |-> S, needed_heights |-> needed, err |-> FALSE]
    ELSE LET item == Head(arr)
         IN  IF "tx_hash" \notin DOMAIN item
             THEN [s |-> S, needed_heights |-> needed, err |-> TRUE]
             ELSE LET S1 == [S EXCEPT !.command_queue =
                                 Append(@, CmdFetchTransaction(item.tx_hash, hash, item.height))]
                      need == /\ item.height > 0
                              /\ item.height \notin DOMAIN S.block_header_cache
                              /\ item.height \notin S.headers_in_flight
                  IN  QueueTransactions(S1, hash, Tail(arr),
                                        IF need THEN needed \cup {item.height} ELSE needed)

\* the History arm's loop over needed_heights (ascending here; the histories
\* served hold one confirmed height, so the HashSet's order is not in play)
RECURSIVE QueueHeaders(_, _, _)
QueueHeaders(S, hash, needed) ==
    IF needed = {} THEN S
    ELSE LET h == CHOOSE x \in needed : \A y \in needed : x <= y
         IN  QueueHeaders([S EXCEPT !.headers_in_flight = @ \cup {h},
                                    !.command_queue = Append(@, CmdFetchBlockHeader(h, hash))],
                          hash, needed \ {h})

\* a History arm without the shortcut for the empty array
OnHistoryResponseNoShortcut(S, hash, arr) ==
    LET S1 == [S EXCEPT !.remaining_txs = MapPut(@, hash, Len(arr))]
        q == QueueTransactions(S1, hash, arr, {})
    IN  IF q.err THEN q.s
        ELSE QueueHeaders([q.s EXCEPT !.remaining_headers =
                               MapPut(@, hash, Cardinality(q.needed_heights))],
                          hash, q.needed_heights)

\* process_message, RequestType::History(hash)
OnHistoryResponse(S, hash, arr) ==
    LET S1 == [S EXCEPT !.remaining_txs = MapPut(@, hash, Len(arr))]
    IN  IF arr = << >>
        THEN CheckHistoryComplete(
                 [S1 EXCEPT !.history_cache = MapPut(@, hash, << >>),
                            !.remaining_headers = MapPut(@, hash, 0)], hash)
        ELSE LET q == QueueTransactions(S1, hash, arr, {})
             IN  IF q.err THEN q.s
                 ELSE QueueHeaders([q.s EXCEPT !.remaining_headers =
                                        MapPut(@, hash, Cardinality(q.needed_heights))],
                                   hash, q.needed_heights)

\* process_message, RequestType::Transaction { related_hash, height }: the set
\* of outcomes. remaining_txs.get_mut(..).unwrap() panics with the lock held
\* when the counter is gone; `*rem -= 1` on 0 panics in a build with overflow
\* checks and wraps without them (-1 stands for usize::MAX)
OnTransactionResponse(S, related_hash, height, tx) ==
    LET S1 == [S EXCEPT !.history_cache =
                   MapPut(@, related_hash,
                          Append(Lookup(S.history_cache, related_hash, << >>),
                                 HistoryTx(tx, height)))]
    IN  IF related_hash \notin DOMAIN S1.remaining_txs
        THEN {[s |-> S1, panic |-> TRUE]}
        ELSE LET rem == S1.remaining_txs[related_hash]
                 S2  == [S1 EXCEPT !.remaining_txs = MapPut(@, related_hash, rem - 1)]
             IN  IF rem = 0
                 THEN {[s |-> S1, panic |-> TRUE], [s |-> S2, panic |-> FALSE]}
                 ELSE {[s |-> IF rem - 1 = 0 THEN CheckHistoryComplete(S2, related_hash) ELSE S2,
                        panic |-> FALSE]}

\* rem.saturating_sub(1)
SaturatingSub1(n) == IF n = 0 THEN 0 ELSE n - 1

\* process_message, RequestType::BlockHeader { height, related_hash }
OnBlockHeaderResponse(S, height, related_hash, header) ==
    LET S1 == [S EXCEPT !.block_header_cache = MapPut(@, height, header),
                        !.headers_in_flight = @ \ {height}]
        S2 == IF related_hash \in DOMAIN S1.remaining_headers
              THEN [S1 EXCEPT !.remaining_headers =
                        MapPut(@, related_hash, SaturatingSub1(S1.remaining_headers[related_hash]))]
              ELSE S1
        txs_done  == Lookup(S2.remaining_txs, related_hash, 0) = 0
        hdrs_done == Lookup(S2.remaining_headers, related_hash, 0) = 0
    IN  IF txs_done /\ hdrs_done THEN CheckHistoryComplete(S2, related_hash) ELSE S2

\* the notification arm of process_message
OnNotification(S, sh_hex) ==
    [S EXCEPT !.ready = Append(@, DecodeScripthash(sh_hex))]

\* hex::decode followed by consensus_decode of a transaction or header result:
\* the payload of a well-formed result, an error for anything else
Undecodable == <<"undecodable">>
ConsensusDecode(result) == IF result = Undecodable THEN None ELSE Some(result)

\* a get_history result that is a JSON value other than an array
NotArray == <<[not_array |-> TRUE]>>

\* process_message: the outcomes of handling one line. A line that is no JSON
\* fails in serde_json::from_str; a result that does not decode, or a history
\* result that is no array, makes process_message return the error right after
\* the request was taken out of inflight_requests.
ProcessMessage(S, msg) ==
    IF msg.kind = "malformed"
    THEN {[s |-> S, panic |-> FALSE]}
    ELSE IF msg.kind = "notification"
    THEN {[s |-> OnNotification(S, msg.param), panic |-> FALSE]}
    ELSE IF msg.id \notin DOMAIN S.inflight_requests
    THEN {[s |-> S, panic |-> FALSE]}
    ELSE LET req == S.inflight_requests[msg.id]
             S1  == [S EXCEPT !.inflight_requests = MapRemove(@, msg.id)]
         IN  IF req.type = "History"
             THEN IF msg.result = NotArray
                  THEN {[s |-> S1, panic |-> FALSE]}
                  ELSE {[s |-> OnHistoryResponse(S1, req.hash, msg.result), panic |-> FALSE]}
             ELSE IF ConsensusDecode(msg.result) = None
             THEN {[s |-> S1, panic |-> FALSE]}
             ELSE IF req.type = "Transaction"
             THEN OnTransactionResponse(S1, req.related_hash, req.height,
                                        ConsensusDecode(msg.result)[1])
             ELSE {[s |-> OnBlockHeaderResponse(S1, req.height, req.related_hash,
                                                ConsensusDecode(msg.result)[1]),
                    panic |-> FALSE]}

\* ------------------------------------------------------------------ orchestrator
\* Faulty variant: the callback is called through a reference and stays in place
CheckInitialSyncCompleteKeepsCallback(O) ==
    IF O.on_initial_sync /\ O.pending_initial_syncs = {}
    THEN [O EXCEPT !.notified = @ + 1]
    ELSE O

\* Faulty variant: the callback fires at the first check, whatever is pending
CheckInitialSyncCompleteIgnoresPending(O) ==
    IF O.on_initial_sync
    THEN [O EXCEPT !.on_initial_sync = FALSE, !.notified = @ + 1]
    ELSE O

\* check_initial_sync_complete: the callback is taken out and called
CheckInitialSyncComplete(O) ==
    IF O.on_initial_sync /\ O.pending_initial_syncs = {}
    THEN [O EXCEPT !.on_initial_sync = FALSE, !.notified = @ + 1]
    ELSE O

\* request_history(hash) was called: one more call for a hash that is being fetched
CountRequest(O, hash) ==
    IF hash \in DOMAIN O.fetching
    THEN [O EXCEPT !.fetching[hash].n = @ + 1]
    ELSE O

\* execute_command
ExecuteCommand(X, E, c) ==
    IF c.cmd = "Subscribe"
    THEN LET script == ScriptForHash(E, c.hash)
         IN  IF script # None
             THEN [X EXCEPT !.s = RegisterScript(@, script[1], c.hash)]
             ELSE X
    ELSE IF c.cmd = "FetchHistory"
    THEN LET X1 == IF X.orch.on_initial_sync
                   THEN [X EXCEPT !.orch.pending_initial_syncs = @ \cup {c.hash},
                                  !.orch.bootstrap_fetches = @ \cup {c.hash}]
                   ELSE X
             open == Lookup(X.orch.fetching, c.hash, [n |-> 0, boot |-> FALSE])
         IN  [X1 EXCEPT !.s = RequestHistory(@, c.hash),
                        !.orch.fetching = MapPut(@, c.hash,
                             [n |-> open.n + 1, boot |-> open.boot \/ X.orch.on_initial_sync])]
    ELSE IF c.txs = << >>
    THEN X
    ELSE [X EXCEPT !.wallet = @ \cup {ComputeTxid(c.txs[n]) : n \in 1..Len(c.txs)}]

\* process_engine's loop over the commands of one handle_event
\* (execute_command never pushes a follow-up event)
RECURSIVE ExecuteCommands(_, _, _)
ExecuteCommands(X, E, cmds) ==
    IF cmds = << >> THEN X
    ELSE ExecuteCommands(ExecuteCommand(X, E, Head(cmds)), E, Tail(cmds))

\* ------------------------------------------------------------------ engine defaults
EngineNew ==
    /\ spk_index_by_hash = << >>
    /\ script_by_hash = << >>
    /\ subscribed = {}
    /\ histories = << >>
    /\ connected = FALSE
    /\ panicked = FALSE
    /\ lastEvent = [ev |-> "none"]

\* ------------------------------------------------------------------ SpecTracker
TrackerInit ==
    /\ \E l \in 0..MaxLookahead : spk_tracker = NewTracker(l)
    /\ lastCall = [op |-> "new"]
    /\ EngineNew
    /\ SystemNew
    /\ twin = NoTwin
    /\ wire = NoWire
    /\ conn = NoConn

TrInsertDescriptor(k, d, n) ==
    LET r == InsertDescriptor(spk_tracker, k, d, n)
    IN  /\ spk_tracker' = r.t
        /\ lastCall' = [op |-> "insert_descriptor", keychain |-> k, descriptor |-> d,
                        index |-> n, ret |-> r.ret,
                        old |-> Lookup(spk_tracker.descriptors, k, "none"),
                        same |-> (k \in DOMAIN spk_tracker.descriptors
                                  /\ spk_tracker.descriptors[k] = d)]
        /\ UNCHANGED <<conn, wire, twin, engineVars, panicked, lastEvent, systemVars>>

\* add_derived_spk expects the keychain's descriptor: the call is made for
\* keychains that hold one. lastCall.again: the call repeats the previous call
\* (same keychain, same index); lastCall.first: what the first call of such a
\* run of equal calls returned.
TrMarkUsed(k, u) ==
    /\ k \in DOMAIN spk_tracker.descriptors
    /\ LET r == MarkUsedAndDeriveNew(spk_tracker, k, u)
           again == /\ lastCall.op = "mark_used_and_derive_new"
                    /\ lastCall.keychain = k
                    /\ lastCall.index = u
       IN  /\ spk_tracker' = r.t
           /\ lastCall' = [op |-> "mark_used_and_derive_new", keychain |-> k,
                           index |-> u, ret |-> r.ret,
                           again |-> again,
                           first |-> IF again THEN lastCall.first ELSE r.ret]
    /\ UNCHANGED <<conn, wire, twin, engineVars, panicked, lastEvent, systemVars>>

TrackerNext ==
    \/ \E k \in Keychains, d \in Descriptors, n \in 0..MaxNextIndex : TrInsertDescriptor(k, d, n)
    \/ \E k \in Keychains, u \in 0..MaxUsedIndex : TrMarkUsed(k, u)

SpecTracker == TrackerInit /\ [][TrackerNext]_vars


\* ------------------------------------------------------------------ SpecEngine
\* scripthashes the environment may name in an event: those of the wallet's
\* descriptor and one of another descriptor
HashUniverse ==
    {Sha256(DeriveSpk("D1", i)) : i \in 0..MaxDerivedIndex} \cup {Sha256(DeriveSpk("D2", 0))}

\* histories delivered to the engine
TxLists ==
    {<< >>, <<HistoryTx("t2", 0), HistoryTx("t1", 1)>>}

\* the tracker main.rs builds first: the external descriptor with next_index 0
\* (the change descriptor is inserted by EngTrackerInsert)
BuiltTrackers ==
    {InsertDescriptor(NewTracker(l), "external", "D1", 0).t : l \in 0..MaxLookahead}

\* SyncEngine::new(spk_tracker)
EngineInit ==
    /\ spk_tracker \in BuiltTrackers
    /\ lastCall = [op |-> "new"]
    /\ EngineNew
    /\ SystemNew
    /\ twin = NoTwin
    /\ wire = NoWire
    /\ conn = NoConn

EngConnected ==
    /\ ~panicked
    /\ LET r == OnConnected(EngineState)
       IN  /\ EngineBecomes(r)
           /\ lastEvent' = [ev |-> "Connected", cmds |-> r.cmds,
                            was_subscribed |-> subscribed]
    /\ UNCHANGED <<conn, wire, twin, lastCall, systemVars>>

EngScriptHashChanged(h) ==
    /\ ~panicked
    /\ LET r == OnScripthashChanged(EngineState, h)
       IN  /\ EngineBecomes(r)
           /\ lastEvent' = [ev |-> "ScriptHashChanged", hash |-> h, cmds |-> r.cmds]
    /\ UNCHANGED <<conn, wire, twin, lastCall, systemVars>>

\* the environment sends histories only where derivation stays within
\* MaxDerivedIndex
WithinDerivationBound(T) ==
    \A p \in DOMAIN T.derived_spks : p[2] <= MaxDerivedIndex

EngScriptHashHistory(h, txs) ==
    /\ ~panicked
    /\ LET r == OnScripthashHistory(EngineState, h, txs)
       IN  /\ WithinDerivationBound(r.e.spk_tracker)
           /\ Cardinality(DOMAIN r.e.histories) <= MaxHistories
           /\ EngineBecomes(r)
           /\ lastEvent' = [ev |-> "ScriptHashHistory", hash |-> h, txs |-> txs,
                            cmds |-> r.cmds,
                            was_empty |-> (h \notin DOMAIN histories \/ histories[h] = << >>),
                            pos |-> IndexOfSpkHash(spk_tracker, h),
                            derived_before |-> DOMAIN spk_tracker.derived_spks,
                            was_subscribed |-> subscribed]
    /\ UNCHANGED <<conn, wire, twin, lastCall, systemVars>>

\* insert_descriptor on the engine's tracker: the change descriptor in main.rs,
\* tracker_mut().insert_descriptor(..) in test builds
EngTrackerInsert(k, d, n) ==
    /\ ~panicked
    /\ LET r == InsertDescriptor(spk_tracker, k, d, n)
       IN  /\ spk_tracker' = r.t
           /\ lastCall' = [op |-> "insert_descriptor", keychain |-> k, descriptor |-> d,
                           index |-> n, ret |-> r.ret,
                           old |-> Lookup(spk_tracker.descriptors, k, "none"),
                           same |-> (k \in DOMAIN spk_tracker.descriptors
                                     /\ spk_tracker.descriptors[k] = d)]
    /\ UNCHANGED <<conn, wire, twin, spk_index_by_hash, script_by_hash, subscribed, histories,
                   connected, panicked, lastEvent, systemVars>>

EngineNext ==
    \/ EngConnected
    \/ \E h \in HashUniverse : EngScriptHashChanged(h)
    \/ \E h \in HashUniverse, txs \in TxLists : EngScriptHashHistory(h, txs)
    \/ \E d \in Descriptors : EngTrackerInsert("internal", d, 0)

SpecEngine == EngineInit /\ [][EngineNext]_vars

\* ------------------------------------------------------------------ SpecTwin
\* readings of Instant::now()
Clock == 0..MaxClock

\* the Instant fields of EngineState as SyncEngine::new sets them
NewTimes(now) ==
    [start_time |-> now, first_history_seen_at |-> None, first_tx_seen_at |-> None]

\* the latest instant the engine has recorded (the clock is monotonic)
LatestOf(Tm) ==
    SetMax({Tm.start_time}
           \cup {Tm.first_history_seen_at[n] : n \in 1..Len(Tm.first_history_seen_at)}
           \cup {Tm.first_tx_seen_at[n] : n \in 1..Len(Tm.first_tx_seen_at)})

\* on_scripthash_history's writes to the Instant fields: the benchmark hook
\* reads the clock (now1), then `let now = Instant::now()` (now2) serves the
\* two metric blocks
StampHistory(Tm, txs, now1, now2) ==
    LET T1 == IF Tm.first_history_seen_at = None /\ txs # << >>
              THEN [Tm EXCEPT !.first_history_seen_at = Some(now1)] ELSE Tm
        T2 == IF T1.first_history_seen_at = None /\ txs # << >>
              THEN [T1 EXCEPT !.first_history_seen_at = Some(now2)] ELSE T1
    IN  IF T2.first_tx_seen_at = None /\ txs # << >>
        THEN [T2 EXCEPT !.first_tx_seen_at = Some(now2)] ELSE T2

\* EngineEvent
EvConnected == [ev |-> "Connected"]
EvScriptHashChanged(h) == [ev |-> "ScriptHashChanged", hash |-> h]
EvScriptHashHistory(h, txs) == [ev |-> "ScriptHashHistory", hash |-> h, txs |-> txs]

\* the match of SyncEngine::handle_event
Dispatch(E, ev) ==
    IF ev.ev = "Connected" THEN OnConnected(E)
    ELSE IF ev.ev = "ScriptHashChanged" THEN OnScripthashChanged(E, ev.hash)
    ELSE OnScripthashHistory(E, ev.hash, ev.txs)

\* Faulty variant: a history handled at the very instant the engine was built
\* (start_time.elapsed() is zero) returns no command
HandleEventSilentAtStart(E, Tm, ev, now1, now2) ==
    LET r == Dispatch(E, ev)
    IN  [e |-> r.e,
         cmds |-> IF ev.ev = "ScriptHashHistory" /\ now1 = Tm.start_time THEN << >> ELSE r.cmds,
         panic |-> r.panic,
         tm |-> IF ev.ev = "ScriptHashHistory" THEN StampHistory(Tm, ev.txs, now1, now2) ELSE Tm]

\* SyncEngine::handle_event on an engine whose Instant fields are Tm, with the
\* clock readings now1 <= now2 the handler makes
HandleEvent(E, Tm, ev, now1, now2) ==
    LET r == Dispatch(E, ev)
    IN  [e |-> r.e,
         cmds |-> r.cmds,
         panic |-> r.panic,
         tm |-> IF ev.ev = "ScriptHashHistory" THEN StampHistory(Tm, ev.txs, now1, now2) ELSE Tm]

\* scripthashes the events name: those of the wallet's descriptor and one of
\* another descriptor
TwinHashes ==
    {Sha256(DeriveSpk("D1", i)) : i \in 0..MaxTwinIndex} \cup {Sha256(DeriveSpk("D2", 0))}

TwinEvents ==
    {EvConnected}
    \cup {EvScriptHashChanged(h) : h \in TwinHashes}
    \cup {EvScriptHashHistory(h, txs) : h \in TwinHashes, txs \in TxLists}

\* SyncEngine::new(tracker) and SyncEngine::new(tracker.clone()), at instants
\* a and b. The first engine is the one of the engine variables, its Instant
\* fields are twin.tm; the second one is twin.e with twin.e_tm. twin.cmds and
\* twin.panic are what the second engine returned for the last event.
TwinInit ==
    /\ \E l \in 0..MaxTwinLookahead :
           spk_tracker = InsertDescriptor(NewTracker(l), "external", "D1", 0).t
    /\ lastCall = [op |-> "new"]
    /\ EngineNew
    /\ SystemNew
    /\ \E a \in Clock, b \in Clock :
           twin = [tm |-> NewTimes(a),
                   e |-> [spk_tracker |-> spk_tracker,
                          spk_index_by_hash |-> << >>,
                          script_by_hash |-> << >>,
                          subscribed |-> {},
                          histories |-> << >>,
                          connected |-> FALSE],
                   e_tm |-> NewTimes(b),
                   cmds |-> << >>,
                   panic |-> FALSE]
    /\ wire = NoWire
    /\ conn = NoConn

\* both engines handle the event ev, each with its own readings of the clock
TwinEvent(ev, a1, a2, b1, b2) ==
    /\ ~panicked
    /\ ~twin.panic
    /\ LatestOf(twin.tm) <= a1 /\ a1 <= a2
    /\ LatestOf(twin.e_tm) <= b1 /\ b1 <= b2
    /\ LET rA == HandleEvent(EngineState, twin.tm, ev, a1, a2)
           rB == HandleEvent(twin.e, twin.e_tm, ev, b1, b2)
       IN  /\ \A p \in DOMAIN rA.e.spk_tracker.derived_spks : p[2] <= MaxTwinIndex
           /\ EngineBecomes(rA)
           /\ lastEvent' = [ev |-> ev.ev, event |-> ev, cmds |-> rA.cmds]
           /\ twin' = [tm |-> rA.tm, e |-> rB.e, e_tm |-> rB.tm,
                       cmds |-> rB.cmds, panic |-> rB.panic]
    /\ UNCHANGED <<conn, wire, lastCall, systemVars>>

TwinNext ==
    \E ev \in TwinEvents, a1 \in Clock, a2 \in Clock, b1 \in Clock, b2 \in Clock :
        TwinEvent(ev, a1, a2, b1, b2)

SpecTwin == TwinInit /\ [][TwinNext]_vars

\* ------------------------------------------------------------------ SpecWire
\* The scripthash on the wire, byte by byte. A hash is the sequence of its
\* bytes (WireHashLen of them), a string the sequence of its characters.
HexDigits == <<"0", "1", "2", "3", "4", "5", "6", "7", "8", "9", "a", "b", "c", "d", "e", "f">>
UpperHexDigits == <<"A", "B", "C", "D", "E", "F">>

\* the value of a hex digit as hex::decode reads it (either case), -1 for any
\* other character
HexVal(c) ==
    IF \E n \in 1..16 : HexDigits[n] = c
    THEN (CHOOSE n \in 1..16 : HexDigits[n] = c) - 1
    ELSE IF \E n \in 1..6 : UpperHexDigits[n] = c
    THEN (CHOOSE n \in 1..6 : UpperHexDigits[n] = c) + 9
    ELSE -1

\* hex::encode: two lower-case digits per byte, the high nibble first
HexEncode(bytes) ==
    [n \in 1..(2 * Len(bytes)) |->
        IF n % 2 = 1 THEN HexDigits[(bytes[(n + 1) \div 2] \div 16) + 1]
                     ELSE HexDigits[(bytes[n \div 2] % 16) + 1]]

\* hex::decode: an error for an odd length or a character that is no hex digit
HexDecode(str) ==
    IF Len(str) % 2 = 1 \/ \E n \in 1..Len(str) : HexVal(str[n]) = -1
    THEN None
    ELSE Some([n \in 1..(Len(str) \div 2) |-> 16 * HexVal(str[2 * n - 1]) + HexVal(str[2 * n])])

\* bytes.reverse()
ReverseBytes(bytes) == [n \in 1..Len(bytes) |-> bytes[Len(bytes) + 1 - n]]

\* sha256::Hash::from_slice: an error unless the slice has the length of a hash
FromSlice(bytes) == IF Len(bytes) = WireHashLen THEN Some(bytes) ELSE None

\* sha256::Hash::hash of a script, as bytes: different scripts give different
\* hashes
Sha256Bytes(spk) ==
    [n \in 1..WireHashLen |->
        IF n = 1 THEN 16 * (IF spk[2] = "D1" THEN 10 ELSE 11) + spk[3]
                 ELSE (37 * n + 16 * spk[3]) % 256]

\* Faulty variant: the bytes are encoded in their natural order
ScripthashHexNoReverse(hash) == HexEncode(hash)

\* flush_outgoing, FetchHistory: hex::encode of the reversed bytes of the hash
ScripthashHex(hash) == HexEncode(ReverseBytes(hash))

\* electrum_scripthash(script), used by flush_outgoing for Subscribe
ElectrumScripthashHex(script) == HexEncode(ReverseBytes(Sha256Bytes(script)))

\* the notification arm: hex::decode(sh_hex)?, reverse, from_slice(..)?
ParseScripthash(sh_hex) ==
    LET bytes == HexDecode(sh_hex)
    IN  IF bytes = None THEN None ELSE FromSlice(ReverseBytes(bytes[1]))

\* bytes the hashes of SpecWire are made of
WireBytes == {0, 26, 171, 255}

RECURSIVE SeqsOfLen(_, _)
SeqsOfLen(S, n) ==
    IF n = 0 THEN {<< >>}
    ELSE {Append(x, c) : x \in SeqsOfLen(S, n - 1), c \in S}

WireHashes == SeqsOfLen(WireBytes, WireHashLen)

\* characters of the strings a server sends as a notification's scripthash
WireChars == {"0", "a", "1", "B", "g"}

\* the strings: those of the length of an encoded hash, and their prefixes one
\* and two characters shorter
WireStrings ==
    {SubSeq(x, 1, n) : x \in SeqsOfLen(WireChars, 2 * WireHashLen),
                       n \in (2 * WireHashLen - 2)..(2 * WireHashLen)}

WireScripts == {DeriveSpk(d, i) : d \in Descriptors, i \in 0..MaxWireIndex}

WireInit ==
    /\ spk_tracker = NewTracker(0)
    /\ lastCall = [op |-> "new"]
    /\ EngineNew
    /\ SystemNew
    /\ twin = NoTwin
    /\ wire = NoWire
    /\ conn = NoConn

\* The conversions keep no state: a run follows one string, from NoWire to
\* what it was converted to.
\* the writer sends Subscribe { hash, script } and FetchHistory(hash) for a
\* script and its hash; a notification carrying the string sent is parsed
WireSubscribe(script) ==
    /\ wire = NoWire
    /\ wire' = [op |-> "subscribe", hash |-> Sha256Bytes(script),
                sub_hex |-> ElectrumScripthashHex(script),
                hex |-> ScripthashHex(Sha256Bytes(script)),
                parsed |-> ParseScripthash(ScripthashHex(Sha256Bytes(script)))]
    /\ UNCHANGED <<trackerVars, engineVars, panicked, lastEvent, systemVars, twin, conn>>

\* the writer sends FetchHistory(hash); a notification carrying the string
\* sent is parsed
WireFetch(hash) ==
    /\ wire = NoWire
    /\ wire' = [op |-> "fetch", hash |-> hash, hex |-> ScripthashHex(hash),
                parsed |-> ParseScripthash(ScripthashHex(hash))]
    /\ UNCHANGED <<trackerVars, engineVars, panicked, lastEvent, systemVars, twin, conn>>

\* the reader parses the scripthash of a notification; a hash that was parsed
\* is encoded again as FetchHistory would send it
WireNotification(sh_hex) ==
    /\ wire = NoWire
    /\ LET parsed == ParseScripthash(sh_hex)
       IN  wire' = [op |-> "notification", hex |-> sh_hex, parsed |-> parsed,
                    again |-> IF parsed = None THEN None ELSE Some(ScripthashHex(parsed[1]))]
    /\ UNCHANGED <<trackerVars, engineVars, panicked, lastEvent, systemVars, twin, conn>>

WireNext ==
    \/ \E script \in WireScripts : WireSubscribe(script)
    \/ \E hash \in WireHashes : WireFetch(hash)
    \/ \E sh_hex \in WireStrings : WireNotification(sh_hex)

SpecWire == WireInit /\ [][WireNext]_vars

\* ------------------------------------------------------------------ SpecConnect
\* ElectrumAdapter::new: the caller builds SharedState with connected = false,
\* spawns the background thread and waits on the condition variable; the
\* background task connects, sends server.version, sets connected and notifies.
\*   conn.caller   position of the caller of new
\*   conn.task     position of the background task
\*   conn.mutex    who holds the SharedState mutex
\*   conn.waiting  the caller is blocked in cv.wait
\*   conn.spurious spurious wake-ups so far
\*   conn.tls      the TLS handshake is done (and the reader task spawned)
\*   conn.version  server.version: "unsent", "sent", "answered", "read"
ConnInit ==
    /\ spk_tracker = NewTracker(0)
    /\ lastCall = [op |-> "new"]
    /\ EngineNew
    /\ state = [NewSharedState EXCEPT !.connected = FALSE]
    /\ NEXT_ID = 1
    /\ poisoned = FALSE
    /\ server = [hist |-> << >>, subs |-> {}, pending |-> {}, answered |-> {}, garbled |-> 0, pushed |-> 0]
    /\ s2c = << >>
    /\ orch = NewOrchestrator(FALSE)
    /\ wallet = {}
    /\ lastFetch = NoFetch
    /\ writer = NoWriter
    /\ twin = NoTwin
    /\ wire = NoWire
    /\ conn = [caller |-> "spawn", task |-> "unborn", mutex |-> "free", waiting |-> FALSE,
               spurious |-> 0, tls |-> FALSE, version |-> "unsent"]

ConnUnchanged ==
    UNCHANGED <<trackerVars, engineVars, panicked, lastEvent, poisoned, orch, wallet,
                lastFetch, twin, wire, writer>>

\* std::thread::spawn(..)
CallerSpawn ==
    /\ conn.caller = "spawn"
    /\ conn' = [conn EXCEPT !.caller = "lock", !.task = "connect"]
    /\ UNCHANGED <<state, NEXT_ID, server, s2c>>
    /\ ConnUnchanged

\* state.lock().unwrap(), and the re-locking when cv.wait returns
CallerLock ==
    /\ conn.caller = "lock"
    /\ conn.mutex = "free"
    /\ conn' = [conn EXCEPT !.caller = "check", !.mutex = "caller"]
    /\ UNCHANGED <<state, NEXT_ID, server, s2c>>
    /\ ConnUnchanged

\* while !guard.connected { .. }: with connected set the guard is dropped and
\* new returns; otherwise the caller goes on to cv.wait, the mutex still held
CallerCheck ==
    /\ conn.caller = "check"
    /\ IF state.connected
       THEN conn' = [conn EXCEPT !.caller = "returned", !.mutex = "free"]
       ELSE conn' = [conn EXCEPT !.caller = "wait"]
    /\ UNCHANGED <<state, NEXT_ID, server, s2c>>
    /\ ConnUnchanged

\* guard = cv.wait(guard): the mutex is released and the caller blocks, in one step
CallerWait ==
    /\ conn.caller = "wait"
    /\ conn.mutex = "caller"
    /\ conn' = [conn EXCEPT !.mutex = "free", !.waiting = TRUE]
    /\ UNCHANGED <<state, NEXT_ID, server, s2c>>
    /\ ConnUnchanged

\* cv.wait wakes up without a notification
CallerSpuriousWakeup ==
    /\ conn.caller = "wait"
    /\ conn.waiting
    /\ conn.spurious < MaxSpuriousWakeups
    /\ conn' = [conn EXCEPT !.caller = "lock", !.waiting = FALSE, !.spurious = @ + 1]
    /\ UNCHANGED <<state, NEXT_ID, server, s2c>>
    /\ ConnUnchanged

\* AsyncElectrumTask::connect up to the spawning of the reader task: address
\* resolution, TCP and TLS succeed, or one of them fails and
\* .expect("connect electrum") panics the background thread
TaskConnect(ok) ==
    /\ conn.task = "connect"
    /\ conn' = IF ok THEN [conn EXCEPT !.task = "handshake", !.tls = TRUE]
                     ELSE [conn EXCEPT !.task = "panicked"]
    /\ UNCHANGED <<state, NEXT_ID, server, s2c>>
    /\ ConnUnchanged

\* handshake: server.version is written with the id next_id() gives; nothing
\* is read
TaskHandshake(ok) ==
    /\ conn.task = "handshake"
    /\ NEXT_ID' = NEXT_ID + 1
    /\ IF ok
       THEN /\ conn' = [conn EXCEPT !.task = "lock", !.version = "sent"]
            /\ server' = [server EXCEPT !.pending =
                              @ \cup {[id |-> NEXT_ID, method |-> "server.version",
                                       param |-> "1.4"]}]
       ELSE /\ conn' = [conn EXCEPT !.task = "panicked"]
            /\ server' = server
    /\ UNCHANGED <<state, s2c>>
    /\ ConnUnchanged

\* let mut s = this.state.lock().unwrap()
TaskLock ==
    /\ conn.task = "lock"
    /\ conn.mutex = "free"
    /\ conn' = [conn EXCEPT !.task = "set", !.mutex = "task"]
    /\ UNCHANGED <<state, NEXT_ID, server, s2c>>
    /\ ConnUnchanged

\* Faulty variant: the flag is set without the mutex, at any moment of the
\* caller's check-then-wait
TaskSetConnectedUnlocked ==
    /\ conn.task \in {"lock", "set"}
    /\ state' = [state EXCEPT !.connected = TRUE]
    /\ conn' = [conn EXCEPT !.task = "notify",
                            !.mutex = IF conn.mutex = "task" THEN "free" ELSE @]
    /\ UNCHANGED <<NEXT_ID, server, s2c>>
    /\ ConnUnchanged

\* s.connected = true; the guard is dropped at the end of the block
TaskSetConnected ==
    /\ conn.task = "set"
    /\ state' = [state EXCEPT !.connected = TRUE]
    /\ conn' = [conn EXCEPT !.task = "notify", !.mutex = "free"]
    /\ UNCHANGED <<NEXT_ID, server, s2c>>
    /\ ConnUnchanged

\* this.cv.notify_all(): a caller blocked in cv.wait is woken and locks again
TaskNotifyAll ==
    /\ conn.task = "notify"
    /\ conn' = IF conn.waiting
               THEN [conn EXCEPT !.task = "run", !.caller = "lock", !.waiting = FALSE]
               ELSE [conn EXCEPT !.task = "run"]
    /\ UNCHANGED <<state, NEXT_ID, server, s2c>>
    /\ ConnUnchanged

\* the server answers server.version
ConnServerAnswer ==
    /\ conn.version = "sent"
    /\ \E req \in server.pending :
           /\ server' = [server EXCEPT !.pending = @ \ {req}]
           /\ s2c' = Append(s2c, [kind |-> "response", id |-> req.id,
                                  result |-> <<"ElectrumX", "1.4">>])
    /\ conn' = [conn EXCEPT !.version = "answered"]
    /\ UNCHANGED <<state, NEXT_ID>>
    /\ ConnUnchanged

\* the reader task reads the answer: its id is in no inflight request, and
\* process_message drops it
ConnReaderStep ==
    /\ conn.tls
    /\ s2c # << >>
    /\ conn.mutex = "free"
    /\ \E o \in ProcessMessage(state, Head(s2c)) : state' = o.s
    /\ s2c' = Tail(s2c)
    /\ conn' = [conn EXCEPT !.version = "read"]
    /\ UNCHANGED <<NEXT_ID, server>>
    /\ ConnUnchanged

ConnNext ==
    \/ CallerSpawn
    \/ CallerLock
    \/ CallerCheck
    \/ CallerWait
    \/ CallerSpuriousWakeup
    \/ \E ok \in BOOLEAN : TaskConnect(ok)
    \/ \E ok \in BOOLEAN : TaskHandshake(ok)
    \/ TaskLock
    \/ TaskSetConnected
    \/ TaskNotifyAll
    \/ ConnServerAnswer
    \/ ConnReaderStep

SpecConnect == ConnInit /\ [][ConnNext]_vars

\* ------------------------------------------------------------------ SpecSystem
\* scripthashes that receive transactions on the server: the wallet's first
\* addresses, those of the lookahead window main.rs derives
ServerHashes == {Sha256(DeriveSpk("D1", i)) : i \in 0..MaxSysLookahead}

\* number of history entries the server holds
RECURSIVE TotalEntries(_, _)
TotalEntries(hist, hs) ==
    IF hs = {} THEN 0
    ELSE LET h == CHOOSE x \in hs : TRUE
         IN  Len(hist[h]) + TotalEntries(hist, hs \ {h})

\* the n-th transaction the server learns for a scripthash: the odd ones are
\* confirmed in block 1, the even ones wait in the mempool (height 0)
ServerTx(n) == [tx_hash |-> <<"tx", n>>, height |-> n % 2]

\* the process lives: neither the main thread nor an adapter task panicked
Alive == ~panicked /\ ~poisoned

SystemInit ==
    /\ \E l \in 0..MaxSysLookahead :
           \/ spk_tracker = InsertDescriptor(NewTracker(l), "external", "D1", 0).t
           \/ spk_tracker = NewTracker(l)
    /\ lastCall = [op |-> "new"]
    /\ EngineNew
    /\ state = NewSharedState
    /\ NEXT_ID = FirstRequestId
    /\ poisoned = FALSE
    /\ server = [hist |-> [h \in ServerHashes |-> << >>], subs |-> {}, pending |-> {},
                 answered |-> {}, garbled |-> 0, pushed |-> 0]
    /\ s2c = << >>
    /\ \E notifier \in BOOLEAN : orch = NewOrchestrator(notifier)
    /\ wallet = {}
    /\ lastFetch = NoFetch
    /\ writer = NoWriter
    /\ twin = NoTwin
    /\ wire = NoWire
    /\ conn = NoConn

\* run_forever, before the loop: process_engine(Connected), then
\* check_initial_sync_complete
OrchBootstrap ==
    /\ Alive
    /\ ~orch.running
    /\ LET r == OnConnected(EngineState)
           X == ExecuteCommands([orch |-> orch, s |-> state, wallet |-> wallet], r.e, r.cmds)
       IN  /\ EngineBecomes(r)
           /\ lastEvent' = [ev |-> "Connected", cmds |-> r.cmds, was_subscribed |-> subscribed]
           /\ orch' = CheckInitialSyncComplete([X.orch EXCEPT !.running = TRUE])
           /\ state' = X.s
           /\ wallet' = X.wallet
    /\ UNCHANGED <<writer, conn, wire, twin, lastCall, NEXT_ID, poisoned, server, s2c, lastFetch>>

\* one turn of run_forever's loop whose poll yields a hash and whose
\* fetch_history_txs yields a bundle
OrchHit ==
    /\ Alive
    /\ orch.running
    /\ LET p == PollScripthashChanged(state)
       IN  /\ p.ret # None
           /\ LET hash == p.ret[1]
                  f == FetchHistoryTxs(p.s, hash)
              IN  /\ f.ret # None
                  /\ LET txs == f.ret[1]
                         r == OnScripthashHistory(EngineState, hash, txs)
                         X == ExecuteCommands([orch |-> orch, s |-> f.s, wallet |-> wallet],
                                              r.e, r.cmds)
                         O1 == [X.orch EXCEPT !.pending_initial_syncs = @ \ {hash},
                                              !.fetching = MapRemove(@, hash)]
                     IN  /\ EngineBecomes(r)
                         /\ lastEvent' = [ev |-> "ScriptHashHistory", hash |-> hash, txs |-> txs,
                                cmds |-> r.cmds,
                                was_empty |-> (hash \notin DOMAIN histories \/ histories[hash] = << >>),
                                pos |-> IndexOfSpkHash(spk_tracker, hash),
                                derived_before |-> DOMAIN spk_tracker.derived_spks,
                                was_subscribed |-> subscribed]
                         /\ orch' = IF r.panic THEN orch ELSE CheckInitialSyncComplete(O1)
                         /\ state' = X.s
                         /\ wallet' = X.wallet
                         /\ lastFetch' = [ev |-> "hit", hash |-> hash, b |-> txs,
                                remaining_txs |-> Lookup(state.remaining_txs, hash, 0),
                                remaining_headers |-> Lookup(state.remaining_headers, hash, 0),
                                headers |-> DOMAIN state.block_header_cache,
                                notified_before |-> orch.notified,
                                server_history |-> Lookup(server.hist, hash, << >>)]
    /\ UNCHANGED <<writer, conn, wire, twin, lastCall, NEXT_ID, poisoned, server, s2c>>

\* a miss that wakes the engine with ScriptHashChanged and runs its commands
OrchMissFeedsChanged ==
    /\ Alive
    /\ orch.running
    /\ LET p == PollScripthashChanged(state)
       IN  /\ p.ret # None
           /\ LET hash == p.ret[1]
                  f == FetchHistoryTxs(p.s, hash)
                  r == OnScripthashChanged(EngineState, hash)
                  X == ExecuteCommands([orch |-> orch, s |-> f.s, wallet |-> wallet],
                                       r.e, r.cmds)
              IN  /\ f.ret = None
                  /\ EngineBecomes(r)
                  /\ lastEvent' = [ev |-> "ScriptHashChanged", hash |-> hash, cmds |-> r.cmds]
                  /\ state' = X.s
                  /\ orch' = X.orch
                  /\ wallet' = X.wallet
                  /\ lastFetch' = [ev |-> "miss", hash |-> hash, requested |-> TRUE]
    /\ UNCHANGED <<writer, conn, wire, twin, lastCall, NEXT_ID, poisoned, server, s2c>>

\* Faulty variant: a miss requests the history also for a hash that is pending
OrchMissAlwaysRequests ==
    /\ Alive
    /\ orch.running
    /\ LET p == PollScripthashChanged(state)
       IN  /\ p.ret # None
           /\ LET hash == p.ret[1]
                  f == FetchHistoryTxs(p.s, hash)
              IN  /\ f.ret = None
                  /\ state' = RequestHistory(f.s, hash)
                  /\ orch' = CountRequest(orch, hash)
                  /\ lastFetch' = [ev |-> "miss", hash |-> hash, requested |-> TRUE]
    /\ UNCHANGED <<writer, conn, wire, twin, spk_tracker, lastCall, engineVars, panicked, lastEvent,
                   NEXT_ID, poisoned, server, s2c, wallet>>

\* one turn of the loop whose fetch_history_txs yields None
OrchMiss ==
    /\ Alive
    /\ orch.running
    /\ LET p == PollScripthashChanged(state)
       IN  /\ p.ret # None
           /\ LET hash == p.ret[1]
                  f == FetchHistoryTxs(p.s, hash)
                  pending == hash \in orch.pending_initial_syncs
              IN  /\ f.ret = None
                  /\ state' = IF pending THEN f.s ELSE RequestHistory(f.s, hash)
                  /\ orch' = IF pending THEN orch ELSE CountRequest(orch, hash)
                  /\ lastFetch' = [ev |-> "miss", hash |-> hash, requested |-> ~pending]
    /\ UNCHANGED <<writer, conn, wire, twin, spk_tracker, lastCall, engineVars, panicked, lastEvent,
                   NEXT_ID, poisoned, server, s2c, wallet>>

\* one pass of the writer task's run_forever that finds commands queued,
\* while the request ids stay <= limit
WriterFlushUpTo(limit) ==
    /\ Alive
    /\ state.command_queue # << >>
    /\ LET r == FlushOutgoing(state, NEXT_ID)
       IN  /\ r.next_id <= limit + 1
           /\ state' = r.s
           /\ NEXT_ID' = r.next_id
           /\ server' = [server EXCEPT !.pending = @ \cup r.sent]
    /\ UNCHANGED <<writer, conn, wire, twin, spk_tracker, lastCall, engineVars, panicked, lastEvent,
                   poisoned, s2c, orch, wallet, lastFetch>>

WriterFlush == WriterFlushUpTo(MaxRequestId)

\* the reader task reads one line and runs process_message on it
ReaderStep ==
    /\ Alive
    /\ s2c # << >>
    /\ \E o \in ProcessMessage(state, Head(s2c)) :
           /\ state' = o.s
           /\ poisoned' = o.panic
    /\ s2c' = Tail(s2c)
    /\ UNCHANGED <<writer, conn, wire, twin, spk_tracker, lastCall, engineVars, panicked, lastEvent,
                   NEXT_ID, server, orch, wallet, lastFetch>>

\* the server learns a transaction for h and notifies h's subscribers
ServerNewTx(h) ==
    /\ Alive
    /\ TotalEntries(server.hist, DOMAIN server.hist) < MaxServerTxs
    /\ server' = [server EXCEPT !.hist[h] = Append(@, ServerTx(Len(@) + 1))]
    /\ IF h \in server.subs
       THEN s2c' = Append(s2c, [kind |-> "notification", param |-> EncodeScripthash(h)])
       ELSE s2c' = s2c
    /\ UNCHANGED <<writer, conn, wire, twin, spk_tracker, lastCall, engineVars, panicked, lastEvent,
                   state, NEXT_ID, poisoned, orch, wallet, lastFetch>>

\* the server's answer to one request, in any order. The answer to a
\* subscribe carries an id that is not in inflight_requests; process_message
\* drops it, so it is not put on the wire here.
ServerAnswer(req) ==
    /\ Alive
    /\ req \in server.pending
    /\ IF req.method = "blockchain.scripthash.subscribe"
       THEN /\ server' = [server EXCEPT !.pending = @ \ {req},
                                        !.subs = @ \cup {DecodeScripthash(req.param)}]
            /\ s2c' = s2c
       ELSE IF req.method = "blockchain.scripthash.get_history"
               THEN LET arr == Lookup(server.hist, DecodeScripthash(req.param), << >>)
                    IN  /\ server' = [server EXCEPT !.pending = @ \ {req},
                                          !.answered = @ \cup {<<DecodeScripthash(req.param), arr>>}]
                        /\ s2c' = Append(s2c, [kind |-> "response", id |-> req.id, result |-> arr])
               ELSE /\ server' = [server EXCEPT !.pending = @ \ {req}]
                    /\ s2c' = Append(s2c, [kind |-> "response", id |-> req.id,
                                 result |-> IF req.method = "blockchain.transaction.get"
                                            THEN req.param
                                            ELSE <<"header", req.param>>])
    /\ UNCHANGED <<writer, conn, wire, twin, spk_tracker, lastCall, engineVars, panicked, lastEvent,
                   state, NEXT_ID, poisoned, orch, wallet, lastFetch>>

SystemNext ==
    \/ OrchBootstrap
    \/ OrchHit
    \/ OrchMiss
    \/ WriterFlush
    \/ ReaderStep
    \/ \E h \in ServerHashes : ServerNewTx(h)
    \/ \E req \in server.pending : ServerAnswer(req)

SpecSystem == SystemInit /\ [][SystemNext]_vars

\* ------------------------------------------------------------------ SpecBootstrap
\* the system as main.rs builds it, with the initial-sync callback registered,
\* followed through more requests than SpecSystem
BootstrapInit ==
    /\ SystemInit
    /\ orch.on_initial_sync

BootstrapNext ==
    \/ OrchBootstrap
    \/ OrchHit
    \/ OrchMiss
    \/ WriterFlushUpTo(MaxBootstrapRequestId)
    \/ ReaderStep
    \/ \E h \in ServerHashes : ServerNewTx(h)
    \/ \E req \in server.pending : ServerAnswer(req)

SpecBootstrap == BootstrapInit /\ [][BootstrapNext]_vars

\* ------------------------------------------------------------------ SpecFaulty
\* the server answers a transaction.get or a block.header with a string that
\* is not the hex encoding of a transaction or header
ServerAnswerUndecodable(req) ==
    /\ Alive
    /\ req \in server.pending
    /\ req.method \in {"blockchain.transaction.get", "blockchain.block.header"}
    /\ server.garbled < MaxUndecodable
    /\ server' = [server EXCEPT !.pending = @ \ {req}, !.garbled = @ + 1]
    /\ s2c' = Append(s2c, [kind |-> "response", id |-> req.id, result |-> Undecodable])
    /\ UNCHANGED <<writer, conn, wire, twin, spk_tracker, lastCall, engineVars, panicked, lastEvent,
                   state, NEXT_ID, poisoned, orch, wallet, lastFetch>>

FaultyNext ==
    \/ SystemNext
    \/ \E req \in server.pending : ServerAnswerUndecodable(req)

\* SpecSystem with a server whose responses may fail to decode
SpecFaulty == SystemInit /\ [][FaultyNext]_vars

\* ------------------------------------------------------------------ SpecDrop
\* arr with the entry at position k stripped of its tx_hash
WithoutTxHash(arr, k) ==
    [n \in 1..Len(arr) |-> IF n = k THEN [height |-> arr[n].height] ELSE arr[n]]

\* the server answers a request with a line that is no JSON
ServerAnswerMalformed(req) ==
    /\ Alive
    /\ req \in server.pending
    /\ req.method # "blockchain.scripthash.subscribe"
    /\ server.garbled < MaxUndecodable
    /\ server' = [server EXCEPT !.pending = @ \ {req}, !.garbled = @ + 1]
    /\ s2c' = Append(s2c, [kind |-> "malformed"])
    /\ UNCHANGED <<writer, conn, wire, twin, spk_tracker, lastCall, engineVars, panicked, lastEvent,
                   state, NEXT_ID, poisoned, orch, wallet, lastFetch>>

\* the server answers a get_history with a result that is no array, or with
\* its history where the entry at position k has no tx_hash
ServerAnswerBadHistory(req) ==
    /\ Alive
    /\ req \in server.pending
    /\ req.method = "blockchain.scripthash.get_history"
    /\ server.garbled < MaxUndecodable
    /\ LET arr == Lookup(server.hist, DecodeScripthash(req.param), << >>)
       IN  \E result \in {NotArray} \cup {WithoutTxHash(arr, k) : k \in 1..Len(arr)} :
               s2c' = Append(s2c, [kind |-> "response", id |-> req.id, result |-> result])
    /\ server' = [server EXCEPT !.pending = @ \ {req}, !.garbled = @ + 1]
    /\ UNCHANGED <<writer, conn, wire, twin, spk_tracker, lastCall, engineVars, panicked, lastEvent,
                   state, NEXT_ID, poisoned, orch, wallet, lastFetch>>

\* the result of a subscribe: the status of the scripthash, a digest of its
\* history (carried in the field status of the line, so that it is told from
\* the results the reader decodes)
SubscribeStatus(arr) == <<"status", Len(arr)>>

\* the server handles a subscribe and sends its response (the status), which
\* carries the id the writer used
ServerAnswerSubscribe(req) ==
    /\ Alive
    /\ req \in server.pending
    /\ req.method = "blockchain.scripthash.subscribe"
    /\ server' = [server EXCEPT !.pending = @ \ {req},
                                !.subs = @ \cup {DecodeScripthash(req.param)}]
    /\ s2c' = Append(s2c, [kind |-> "response", id |-> req.id,
                           status |-> SubscribeStatus(
                               Lookup(server.hist, DecodeScripthash(req.param), << >>))])
    /\ UNCHANGED <<writer, conn, wire, twin, spk_tracker, lastCall, engineVars, panicked, lastEvent,
                   state, NEXT_ID, poisoned, orch, wallet, lastFetch>>

DropNext ==
    \/ OrchBootstrap
    \/ OrchHit
    \/ OrchMiss
    \/ WriterFlushUpTo(MaxDropRequestId)
    \/ ReaderStep
    \/ \E h \in ServerHashes : ServerNewTx(h)
    \/ \E req \in server.pending :
           req.method # "blockchain.scripthash.subscribe" /\ ServerAnswer(req)
    \/ \E req \in server.pending : ServerAnswerSubscribe(req)
    \/ \E req \in server.pending : ServerAnswerUndecodable(req)
    \/ \E req \in server.pending : ServerAnswerMalformed(req)
    \/ \E req \in server.pending : ServerAnswerBadHistory(req)

\* SpecSystem with a server that sends the subscribe responses and lines the
\* reader drops
SpecDrop == SystemInit /\ [][DropNext]_vars

\* ------------------------------------------------------------------ SpecPush
\* scripthashes the wallet never enumerated: a script of another descriptor
PushHashes == {Sha256(DeriveSpk("D2", 0))}

\* the server pushes a blockchain.scripthash.subscribe notification for a
\* scripthash the client never subscribed
ServerPush(h) ==
    /\ Alive
    /\ server.pushed < MaxPushes
    /\ server' = [server EXCEPT !.pushed = @ + 1]
    /\ s2c' = Append(s2c, [kind |-> "notification", param |-> EncodeScripthash(h)])
    /\ UNCHANGED <<writer, conn, wire, twin, spk_tracker, lastCall, engineVars, panicked, lastEvent,
                   state, NEXT_ID, poisoned, orch, wallet, lastFetch>>

PushNext ==
    \/ SystemNext
    \/ \E h \in PushHashes : ServerPush(h)

\* SpecSystem with a server that also notifies scripthashes nobody subscribed
SpecPush == SystemInit /\ [][PushNext]_vars

\* ------------------------------------------------------------------ SpecOrder
\* a drain that hands the commands over newest first
DrainNewestFirst(S) ==
    [s |-> [S EXCEPT !.command_queue = << >>],
     commands |-> [i \in 1..Len(S.command_queue) |->
                      S.command_queue[Len(S.command_queue) + 1 - i]]]

\* flush_outgoing's first statement: under the lock, command_queue.drain(..)
\* collected into the local Vec
DrainCommands(S) ==
    [s |-> [S EXCEPT !.command_queue = << >>], commands |-> S.command_queue]

\* flush_outgoing is entered with commands queued and drains them
WriterDrain ==
    /\ Alive
    /\ writer.commands = << >>
    /\ state.command_queue # << >>
    /\ LET d == DrainCommands(state)
       IN  /\ state' = d.s
           /\ writer' = [writer EXCEPT !.commands = d.commands]
    /\ UNCHANGED <<conn, wire, twin, spk_tracker, lastCall, engineVars, panicked, lastEvent,
                   NEXT_ID, poisoned, server, s2c, orch, wallet, lastFetch>>

\* one turn of flush_outgoing's loop: the next drained command takes an id,
\* is recorded in inflight_requests (but for Subscribe) and is written to the
\* socket; the orchestrator and the reader run between two turns
WriterSend ==
    /\ Alive
    /\ writer.commands # << >>
    /\ NEXT_ID <= MaxOrderRequestId
    /\ LET r == SendCommands(state, NEXT_ID, <<Head(writer.commands)>>, {})
       IN  /\ state' = r.s
           /\ NEXT_ID' = r.next_id
           /\ server' = [server EXCEPT !.pending = @ \cup r.sent]
           /\ writer' = [commands |-> Tail(writer.commands),
                         written |-> Append(writer.written,
                                        [cmd |-> Head(writer.commands),
                                         req |-> CHOOSE q \in r.sent : TRUE])]
    /\ UNCHANGED <<conn, wire, twin, spk_tracker, lastCall, engineVars, panicked, lastEvent,
                   poisoned, s2c, orch, wallet, lastFetch>>

OrderNext ==
    \/ OrchBootstrap
    \/ OrchHit
    \/ OrchMiss
    \/ WriterDrain
    \/ WriterSend
    \/ ReaderStep
    \/ \E h \in ServerHashes : ServerNewTx(h)
    \/ \E req \in server.pending : ServerAnswer(req)

\* SpecSystem with the orchestrator, the reader and the server running
\* between the writes of one flush
SpecOrder == SystemInit /\ [][OrderNext]_vars



\* ================================================================== claims
\* ------------------------------------------------------------------ tracker claims

MaxIndexOf(T, k) == SetMax(IndicesOf(T, k))

\* C5 (as claimed): after mark_used_and_derive_new(K, u) the largest derived
\* index of K is at least u + lookahead.
C5_GapLimitMaintained ==
    lastCall.op = "mark_used_and_derive_new" =>
        MaxIndexOf(spk_tracker, lastCall.keychain) >= lastCall.index + spk_tracker.lookahead

\* C6 (as claimed): after mark_used_and_derive_new(K, index) the forward map of
\* K holds every index of [index+1, index+1+lookahead].
C6_WindowCovered ==
    lastCall.op = "mark_used_and_derive_new" =>
        \A i \in (lastCall.index + 1)..(lastCall.index + 1 + spk_tracker.lookahead) :
            i \in IndicesOf(spk_tracker, lastCall.keychain)

\* C9 (as claimed): every forward entry (K, i) -> h has index_of_spk_hash(h) =
\* Some((K, i)), and every reverse entry h -> (K, i) has the forward entry
\* (K, i) -> h.
C9_ReverseLookupConsistent ==
    /\ \A p \in DOMAIN spk_tracker.derived_spks :
            IndexOfSpkHash(spk_tracker, spk_tracker.derived_spks[p].hash) = Some(p)
    /\ \A h \in DOMAIN spk_tracker.derived_spks_rev :
            LET p == spk_tracker.derived_spks_rev[h]
            IN  p \in DOMAIN spk_tracker.derived_spks /\ spk_tracker.derived_spks[p].hash = h

\* C10: a call insert_descriptor(K, same descriptor) or
\* mark_used_and_derive_new(K, _) never decreases the number of derived SPKs of K.
C10_DerivationMonotone ==
    [][ (\/ lastCall'.op = "mark_used_and_derive_new"
         \/ (lastCall'.op = "insert_descriptor" /\ lastCall'.same))
        => Cardinality(IndicesOf(spk_tracker', lastCall'.keychain))
              >= Cardinality(IndicesOf(spk_tracker, lastCall'.keychain)) ]_vars

\* C10 witness: the identical descriptor was inserted again on a keychain that
\* holds more indices than insert_descriptor itself would derive.
C10_Witness ==
    /\ lastCall.op = "insert_descriptor"
    /\ lastCall.same
    /\ Cardinality(IndicesOf(spk_tracker, lastCall.keychain))
          > lastCall.index + spk_tracker.lookahead + 1

\* C21: a call mark_used_and_derive_new(K, u) that repeats the previous call
\* returns the empty list and leaves the tracker (forward map, reverse map,
\* descriptors) as the first call left it.
C21_MarkUsedIdempotent ==
    [][ (lastCall'.op = "mark_used_and_derive_new" /\ lastCall'.again) =>
           /\ lastCall'.ret = << >>
           /\ spk_tracker' = spk_tracker ]_vars

\* C21 witness: the call was repeated after a first call that derived new
\* indices, fewer than a whole window
C21_Witness ==
    /\ lastCall.op = "mark_used_and_derive_new"
    /\ lastCall.again
    /\ lastCall.ret = << >>
    /\ Len(lastCall.first) > 0
    /\ Len(lastCall.first) < spk_tracker.lookahead + 1

\* the forward entries of keychain k, as index -> (hash, script)
ForwardOf(T, k) == [i \in IndicesOf(T, k) |-> T.derived_spks[<<k, i>>]]

\* the reverse entries that point to keychain k
ReverseOf(T, k) ==
    Restrict(T.derived_spks_rev, {h \in DOMAIN T.derived_spks_rev : T.derived_spks_rev[h][1] = k})

\* what descriptor d gives at index i: (hash, script)
DerivedPair(d, i) == [hash |-> Sha256(DeriveSpk(d, i)), script |-> DeriveSpk(d, i)]

\* C18: insert_descriptor(K, D, n) on a keychain that already holds D returns
\* the empty list and leaves forward map, reverse map and every keychain's
\* descriptor as they were, whatever n is.
C18_SameDescriptorNoOp ==
    [][ (lastCall'.op = "insert_descriptor" /\ lastCall'.same) =>
           /\ lastCall'.ret = << >>
           /\ spk_tracker'.derived_spks = spk_tracker.derived_spks
           /\ spk_tracker'.derived_spks_rev = spk_tracker.derived_spks_rev
           /\ spk_tracker'.descriptors = spk_tracker.descriptors ]_vars

\* C18 witness: the identical descriptor was inserted again with a next_index
\* whose window reaches beyond the indices the keychain holds
C18_Witness ==
    /\ lastCall.op = "insert_descriptor"
    /\ lastCall.same
    /\ lastCall.ret = << >>
    /\ lastCall.index + spk_tracker.lookahead > MaxIndexOf(spk_tracker, lastCall.keychain)

\* C19 (as claimed): insert_descriptor(K, D2, n) on a keychain that held
\* D1 # D2 leaves in the forward map of K exactly the indices 0..n+L derived
\* from D2, leaves none of K's former scripthashes in the reverse map, and
\* leaves the forward and the reverse entries of every other keychain unchanged.
C19_DescriptorReplacement ==
    [][ (/\ lastCall'.op = "insert_descriptor"
         /\ lastCall'.old # "none"
         /\ ~lastCall'.same) =>
           LET K == lastCall'.keychain
               former == {spk_tracker.derived_spks[<<K, i>>].hash : i \in IndicesOf(spk_tracker, K)}
           IN  /\ ForwardOf(spk_tracker', K) =
                      [i \in 0..(lastCall'.index + spk_tracker.lookahead) |->
                           DerivedPair(lastCall'.descriptor, i)]
               /\ former \cap DOMAIN spk_tracker'.derived_spks_rev = {}
               /\ \A k \in Keychains \ {K} :
                      /\ ForwardOf(spk_tracker', k) = ForwardOf(spk_tracker, k)
                      /\ ReverseOf(spk_tracker', k) = ReverseOf(spk_tracker, k) ]_vars

\* the entries 0..m of descriptor d, ascending
PairsUpTo(d, m) == [j \in 1..(m + 1) |-> DerivedPair(d, j - 1)]

\* C20: insert_descriptor(K, D, n) on a keychain without a descriptor returns
\* the n + L + 1 entries of the indices 0..n+L in ascending order; afterwards
\* the forward map of K holds exactly these entries, the reverse map holds for
\* each of them hash -> (K, index), and no other reverse entry points to K
\* (on a tracker that was empty, the two maps hold nothing else).
C20_InitialLookahead ==
    [][ (/\ lastCall'.op = "insert_descriptor"
         /\ lastCall'.keychain \notin DOMAIN spk_tracker.descriptors) =>
           LET K == lastCall'.keychain
               m == lastCall'.index + spk_tracker.lookahead
               want == PairsUpTo(lastCall'.descriptor, m)
           IN  /\ lastCall'.ret = want
               /\ Len(lastCall'.ret) = lastCall'.index + spk_tracker.lookahead + 1
               /\ ForwardOf(spk_tracker', K) = [i \in 0..m |-> want[i + 1]]
               /\ ReverseOf(spk_tracker', K) =
                      [h \in {want[j].hash : j \in 1..(m + 1)} |->
                           <<K, (CHOOSE j \in 1..(m + 1) : want[j].hash = h) - 1>>]
               /\ spk_tracker.derived_spks = << >> =>
                      /\ Cardinality(DOMAIN spk_tracker'.derived_spks) = m + 1
                      /\ Cardinality(DOMAIN spk_tracker'.derived_spks_rev) = m + 1 ]_vars

\* C20 witness: a first insertion with next_index > 0 on a keychain, while the
\* other keychain already holds the same descriptor
C20_Witness ==
    /\ lastCall.op = "insert_descriptor"
    /\ lastCall.old = "none"
    /\ lastCall.index > 0
    /\ Len(lastCall.ret) = lastCall.index + spk_tracker.lookahead + 1
    /\ \E k \in Keychains \ {lastCall.keychain} :
           /\ k \in DOMAIN spk_tracker.descriptors
           /\ spk_tracker.descriptors[k] = lastCall.descriptor

\* ------------------------------------------------------------------ wire encoding claims

\* all characters of str are lower-case hex digits
IsLowerHex(str) == \A n \in 1..Len(str) : \E m \in 1..16 : HexDigits[m] = str[n]

\* C22 (as claimed): the hex sent for a hash h, the same on the Subscribe and on
\* the FetchHistory path, parses back to h; and encoding a parsed notification
\* scripthash again gives the identical string.
C22_WireRoundTrip ==
    /\ wire.op = "subscribe" => wire.sub_hex = wire.hex
    /\ wire.op \in {"subscribe", "fetch"} => wire.parsed = Some(wire.hash)
    /\ (wire.op = "notification" /\ wire.parsed # None) => wire.again = Some(wire.hex)

\* C22 (amended): the hex sent for a hash h, the same on the Subscribe and on
\* the FetchHistory path, is lower-case and parses back to h; encoding a parsed
\* notification scripthash again gives the string received with its digits in
\* lower case, hence the identical string when it was received in lower case
\* (as every string the adapter sends is), and the two parse to the same hash.
C22_WireRoundTripLowerCase ==
    /\ wire.op = "subscribe" => wire.sub_hex = wire.hex
    /\ wire.op \in {"subscribe", "fetch"} =>
           /\ wire.parsed = Some(wire.hash)
           /\ IsLowerHex(wire.hex)
           /\ Len(wire.hex) = 2 * WireHashLen
    /\ (wire.op = "notification" /\ wire.parsed # None) =>
           /\ IsLowerHex(wire.again[1])
           /\ ParseScripthash(wire.again[1]) = wire.parsed
           /\ \A n \in 1..Len(wire.hex) : HexVal(wire.again[1][n]) = HexVal(wire.hex[n])
           /\ IsLowerHex(wire.hex) => wire.again = Some(wire.hex)

\* C22 witness: a notification whose scripthash holds an upper-case digit was
\* parsed, and encoding the hash again gave another string
C22_Witness ==
    /\ wire.op = "notification"
    /\ wire.parsed # None
    /\ ~IsLowerHex(wire.hex)
    /\ wire.again # Some(wire.hex)
    /\ wire.parsed[1][1] # wire.parsed[1][WireHashLen]

\* ------------------------------------------------------------------ connection claims

\* new has returned only with the TLS handshake done, server.version sent and
\* connected set
ReturnsAfterConnected ==
    conn.caller = "returned" =>
        /\ conn.tls
        /\ conn.version # "unsent"
        /\ state.connected

\* new has returned only with the answer to server.version given by the server
ReturnsAfterVersionExchange ==
    conn.caller = "returned" => conn.version \in {"answered", "read"}

\* once the task has set connected and notified, the caller is not on its way
\* into cv.wait and not blocked in it
NoMissedSignal ==
    ~(conn.caller = "wait" /\ conn.task = "run")

\* C23 (as claimed): ElectrumAdapter::new returns only after the background
\* task has completed the TLS handshake and the server.version exchange and set
\* connected, and the wait on the condition variable never misses the signal.
C23_ConnectionReady ==
    conn # NoConn =>
        /\ ReturnsAfterConnected
        /\ ReturnsAfterVersionExchange
        /\ NoMissedSignal

\* C23 (amended): ElectrumAdapter::new returns only after the background task
\* has completed the TLS handshake, written the server.version request and set
\* connected, without waiting for the server's answer to server.version; and
\* the wait on the condition variable never misses the signal.
C23_ConnectionReadyAfterSend ==
    conn # NoConn =>
        /\ ReturnsAfterConnected
        /\ NoMissedSignal

\* C23 witness: new returned, after a wait on the condition variable, while the
\* server had not answered server.version
C23_Witness ==
    /\ conn # NoConn
    /\ conn.caller = "returned"
    /\ conn.spurious > 0
    /\ conn.task = "run"
    /\ conn.version = "sent"

\* ------------------------------------------------------------------ adapter and orchestrator claims

\* bundle b holds exactly the entries of the get_history result arr
SameTransactions(b, arr) ==
    /\ Len(b) = Len(arr)
    /\ {ComputeTxid(b[n]) : n \in 1..Len(b)} = {arr[n].tx_hash : n \in 1..Len(arr)}

\* lastFetch is a bundle that is one whole get_history answer, fetched with
\* both remaining counters at zero
WholeBundle ==
    /\ \E a \in server.answered :
           a[1] = lastFetch.hash /\ SameTransactions(lastFetch.b, a[2])
    /\ lastFetch.remaining_txs = 0
    /\ lastFetch.remaining_headers = 0

\* C1 (as claimed): whenever fetch_history_txs(sh) returns Some(b), b holds
\* exactly the transactions of one get_history response for sh, none missing
\* and none twice, and both remaining counters of sh are zero at that moment.
C1_BundleAtomicity ==
    lastFetch.ev = "hit" => WholeBundle

\* C2 (as claimed, here for the bundles that are whole, so that the failure is
\* not the one of C1): whenever fetch_history_txs(sh) returns Some(b), the
\* height of every transaction of b with height > 0 is in block_header_cache
\* at that moment.
C2_HeaderAnchoring ==
    (lastFetch.ev = "hit" /\ WholeBundle) =>
        \A n \in 1..Len(lastFetch.b) :
            lastFetch.b[n].height > 0 => lastFetch.b[n].height \in lastFetch.headers

\* C3 (as claimed): while the server's history for sh is non-empty, the
\* orchestrator never feeds the engine ScriptHashHistory { sh, txs: [] }.
C3_NoEmptyFeedWhileNonEmpty ==
    (lastFetch.ev = "hit" /\ lastFetch.b = << >>) => lastFetch.server_history = << >>

\* C3 (amended): the orchestrator feeds the engine ScriptHashHistory { sh, txs: [] }
\* only after the server answered a get_history for sh with the empty list:
\* a history that was non-empty whenever the server answered is never fed as
\* empty, whatever notifications, responses and polls interleave.
C3_EmptyFeedOnlyAfterEmptyAnswer ==
    (lastEvent.ev = "ScriptHashHistory" /\ lastEvent.txs = << >>) =>
        <<lastEvent.hash, << >>>> \in server.answered

\* C3 witness: an empty history was fed for a scripthash whose server history
\* is non-empty by then, the server having answered it while it was empty
C3_Witness ==
    /\ lastFetch.ev = "hit"
    /\ lastFetch.b = << >>
    /\ lastFetch.server_history # << >>
    /\ lastEvent.ev = "ScriptHashHistory"
    /\ lastEvent.txs = << >>

\* C4: a turn of the orchestrator's loop that polls sh from the ready queue
\* and finds no bundle for it in history_cache feeds no event to the engine:
\* tracker, engine state, last engine event and wallet are unchanged.
C4_MissLeavesEngineAlone ==
    [][ (/\ state.ready # << >>
         /\ state'.ready = Tail(state.ready)
         /\ Head(state.ready) \notin DOMAIN state.history_cache)
        => UNCHANGED <<spk_tracker, engineVars, lastEvent, wallet>> ]_vars

\* C4 witness: a miss that made the orchestrator call request_history
C4_Witness ==
    /\ lastFetch.ev = "miss"
    /\ lastFetch.requested
    /\ \E n \in 1..Len(state.command_queue) :
           state.command_queue[n] = CmdFetchHistory(lastFetch.hash)

\* a turn of the orchestrator's loop: the head of ready is polled and
\* fetch_history_txs is called for it
PollStep ==
    /\ state.ready # << >>
    /\ state'.ready = Tail(state.ready)

\* fetch_history_txs returned Some for the polled hash while a complete bundle
\* existed for it: both remaining counters at zero or gone
FetchWasGated ==
    LET sh == Head(state.ready)
    IN  sh \in DOMAIN state.history_cache =>
            /\ Lookup(state.remaining_txs, sh, 0) = 0
            /\ Lookup(state.remaining_headers, sh, 0) = 0

\* a fetch that returned Some removed the bundle: a second call returns None
FetchWasDestructive ==
    LET sh == Head(state.ready)
    IN  sh \in DOMAIN state.history_cache =>
            /\ sh \notin DOMAIN state'.history_cache
            /\ FetchHistoryTxs(state', sh).ret = None

\* a fetch that returned None changed nothing: after the turn the adapter state
\* differs by the polled entry and by what request_history queued
FetchNoneChangedNothing ==
    LET sh == Head(state.ready)
        polled == [state EXCEPT !.ready = Tail(@)]
    IN  sh \notin DOMAIN state.history_cache =>
            state' \in {polled, RequestHistory(polled, sh)}

\* C24 (as claimed): fetch_history_txs(sh) returns Some(bundle) only if a
\* complete bundle exists for sh and removes it from history_cache, so that a
\* second call returns None; a call that returns None leaves the adapter state
\* unchanged.
C24_FetchDestructiveAndGated ==
    [][ PollStep => (FetchWasGated /\ FetchWasDestructive /\ FetchNoneChangedNothing) ]_vars

\* a turn of the loop whose fetch_history_txs returns None: the polled hash has
\* no history_cache entry
MissStep ==
    /\ PollStep
    /\ Head(state.ready) \notin DOMAIN state.history_cache

\* the adapter state after the poll of the turn
Polled == [state EXCEPT !.ready = Tail(@)]

\* C29 (as claimed): on every ready wake for sh whose fetch_history_txs returns
\* None the orchestrator calls request_history(sh) and, while the bootstrap
\* callback is pending, adds sh to pending_initial_syncs.
C29_MissRequestsAndMarksPending ==
    [][ MissStep =>
           /\ state' = RequestHistory(Polled, Head(state.ready))
           /\ orch.on_initial_sync =>
                  Head(state.ready) \in orch'.pending_initial_syncs ]_vars

\* C29 (amended): on a ready wake for sh whose fetch_history_txs returns None
\* the orchestrator calls request_history(sh) unless sh is in
\* pending_initial_syncs, in which case it does nothing; the miss never changes
\* pending_initial_syncs or the callback and never wakes the engine.
C29_MissRequestsUnlessPending ==
    [][ MissStep =>
           /\ state' = IF Head(state.ready) \in orch.pending_initial_syncs
                       THEN Polled
                       ELSE RequestHistory(Polled, Head(state.ready))
           /\ orch'.pending_initial_syncs = orch.pending_initial_syncs
           /\ orch'.on_initial_sync = orch.on_initial_sync
           /\ orch'.notified = orch.notified
           /\ UNCHANGED <<spk_tracker, engineVars, lastEvent, wallet>> ]_vars

\* C29 witness: while the callback was still pending, a wake for a scripthash
\* whose history had been fed already missed: the history was requested and
\* the scripthash was not made pending
C29_Witness ==
    /\ lastFetch.ev = "miss"
    /\ lastFetch.requested
    /\ orch.on_initial_sync
    /\ orch.pending_initial_syncs # {}
    /\ lastFetch.hash \notin orch.pending_initial_syncs
    /\ state.command_queue # << >>
    /\ state.command_queue[Len(state.command_queue)] = CmdFetchHistory(lastFetch.hash)

\* the reader task takes a transaction response off the socket and its result
\* decodes: the step that runs the decrement of remaining_txs
ReaderHandlesTransaction ==
    /\ s2c # << >>
    /\ s2c' = Tail(s2c)
    /\ Head(s2c).kind = "response"
    /\ Head(s2c).id \in DOMAIN state.inflight_requests
    /\ state.inflight_requests[Head(s2c).id].type = "Transaction"
    /\ ConsensusDecode(Head(s2c).result) # None

\* C30: no sequence of well-formed server responses stops the reader task:
\* whenever the transaction-response handler decrements the remaining_txs
\* counter of its scripthash, the counter is there and above zero, also with two
\* get_history requests for one scripthash in flight at the same time, and the
\* reader never panics.
C30_ReaderNeverPanics ==
    [][ /\ ReaderHandlesTransaction =>
               LET sh == state.inflight_requests[Head(s2c).id].related_hash
               IN  /\ sh \in DOMAIN state.remaining_txs
                   /\ state.remaining_txs[sh] > 0
        /\ ~poisoned' ]_vars

\* C13: the initial-sync callback fires at most once in a run; once it has
\* fired, on_initial_sync is None and no later cache hit fires it again.
C13_CallbackAtMostOnce ==
    /\ orch.notified <= 1
    /\ orch.notified = 1 => ~orch.on_initial_sync

\* C13 witness: a cache hit, with its check_initial_sync_complete, after the
\* callback had fired
C13_Witness ==
    /\ lastFetch.ev = "hit"
    /\ lastFetch.notified_before = 1
    /\ orch.pending_initial_syncs = {}
    /\ orch.notified = 1

\* C14: when the callback has fired, pending_initial_syncs is empty and every
\* scripthash whose FetchHistory command ran while the callback was registered
\* (those derived meanwhile included) has had a ScriptHashHistory fed to the
\* engine; so while one of them has not, the callback has not fired.
C14_FiresOnlyWhenAllFed ==
    orch.notified > 0 =>
        /\ orch.pending_initial_syncs = {}
        /\ orch.bootstrap_fetches \subseteq DOMAIN histories

\* C14 witness: the callback fired after the history of a scripthash derived
\* during the bootstrap had been fed
C14_Witness ==
    /\ orch.notified = 1
    /\ Cardinality(orch.bootstrap_fetches) >= 2
    /\ \E h \in orch.bootstrap_fetches : histories[h] # << >>

\* C16: between the FetchHistory command for sh, run while the callback is
\* registered, and the feeding of sh's history, request_history(sh) is called
\* exactly once, whatever notifications for sh arrive in between; sh is pending
\* for all that time.
C16_OneFetchDuringBootstrap ==
    /\ \A sh \in DOMAIN orch.fetching :
           orch.fetching[sh].boot => orch.fetching[sh].n = 1
    /\ orch.pending_initial_syncs \subseteq DOMAIN orch.fetching
    /\ \A sh \in DOMAIN orch.fetching :
           orch.fetching[sh].boot => sh \in orch.pending_initial_syncs

\* C16 witness: a notification for a pending scripthash was polled and found
\* no bundle, and no history was requested for it
C16_Witness ==
    /\ lastFetch.ev = "miss"
    /\ ~lastFetch.requested
    /\ lastFetch.hash \in DOMAIN orch.fetching
    /\ orch.fetching[lastFetch.hash] = [n |-> 1, boot |-> TRUE]

\* C15 (as claimed, in the form a finite run decides): with the callback
\* registered and a server answering every request with a well-formed response,
\* every pending scripthash eventually has its history fed and the callback
\* eventually fires. Every step of the orchestrator and of the adapter's tasks
\* takes the SharedState mutex, so once a thread has panicked with the mutex
\* held nothing is fed any more and the callback never fires, however the
\* threads are scheduled: the claim requires that no run reaches such a state
\* while the callback is still waiting for a pending scripthash.
C15_InitialSyncCompletes ==
    (orch.on_initial_sync /\ orch.pending_initial_syncs # {}) => Alive

\* the reader task handles a transaction or header response that does not decode
UndecodableResponseStep ==
    /\ s2c # << >>
    /\ s2c' = Tail(s2c)
    /\ Head(s2c).kind = "response"
    /\ Head(s2c).id \in DOMAIN state.inflight_requests
    /\ state.inflight_requests[Head(s2c).id].type \in {"Transaction", "BlockHeader"}
    /\ ConsensusDecode(Head(s2c).result) = None

\* C17 (as claimed): when a transaction or header response for sh fails to
\* decode, the failed item is left out of the caches, the remaining counter of
\* its kind for sh is decremented all the same, and when that leaves both
\* counters of sh at zero the bundle is finalized: sh is appended to ready.
C17_DecodeFailureStillCounts ==
    [][ UndecodableResponseStep =>
           LET req == state.inflight_requests[Head(s2c).id]
               sh  == req.related_hash
               pre == IF req.type = "Transaction" THEN state.remaining_txs
                                                  ELSE state.remaining_headers
               post == IF req.type = "Transaction" THEN state'.remaining_txs
                                                   ELSE state'.remaining_headers
           IN  /\ state'.history_cache = state.history_cache
               /\ state'.block_header_cache = state.block_header_cache
               /\ sh \in DOMAIN pre =>
                      /\ Lookup(post, sh, 0) = SaturatingSub1(pre[sh])
                      /\ (/\ Lookup(state'.remaining_txs, sh, 0) = 0
                          /\ Lookup(state'.remaining_headers, sh, 0) = 0)
                         => state'.ready = Append(state.ready, sh) ]_vars

\* the reader task reads a line whose processing fails, or a response whose id
\* is not in inflight_requests
DroppedLineStep ==
    /\ s2c # << >>
    /\ s2c' = Tail(s2c)
    /\ LET msg == Head(s2c)
       IN  \/ msg.kind = "malformed"
           \/ /\ msg.kind = "response"
              /\ msg.id \notin DOMAIN state.inflight_requests
           \/ /\ msg.kind = "response"
              /\ msg.id \in DOMAIN state.inflight_requests
              /\ LET req == state.inflight_requests[msg.id]
                 IN  IF req.type = "History"
                     THEN \/ msg.result = NotArray
                          \/ \E n \in 1..Len(msg.result) :
                                 "tx_hash" \notin DOMAIN msg.result[n]
                     ELSE ConsensusDecode(msg.result) = None

\* C32: a dropped message leaves the adapter state unchanged: after a line
\* that fails processing (no JSON, a history result that is no array, a history
\* entry without tx_hash at any position, undecodable hex) or whose id is not in
\* inflight_requests, ready, history_cache, remaining_txs, remaining_headers,
\* headers_in_flight and command_queue are what they were before the line.
C32_DroppedLineChangesNothing ==
    [][ DroppedLineStep =>
           /\ state'.ready = state.ready
           /\ state'.history_cache = state.history_cache
           /\ state'.remaining_txs = state.remaining_txs
           /\ state'.remaining_headers = state.remaining_headers
           /\ state'.headers_in_flight = state.headers_in_flight
           /\ state'.command_queue = state.command_queue ]_vars

\* number of FetchBlockHeader commands queued for height h
QueuedHeaderFetches(h) ==
    Cardinality({n \in 1..Len(state.command_queue) :
                    /\ state.command_queue[n].cmd = "FetchBlockHeader"
                    /\ state.command_queue[n].height = h})

\* number of BlockHeader requests in flight for height h
InflightHeaderRequests(h) ==
    Cardinality({id \in DOMAIN state.inflight_requests :
                    /\ state.inflight_requests[id].type = "BlockHeader"
                    /\ state.inflight_requests[id].height = h})

\* C33: header states are exclusive: no height is both in headers_in_flight
\* and in block_header_cache, and a height in headers_in_flight has exactly one
\* FetchBlockHeader command queued or one BlockHeader request in flight.
C33_HeaderStatesExclusive ==
    /\ state.headers_in_flight \cap DOMAIN state.block_header_cache = {}
    /\ \A h \in state.headers_in_flight :
           QueuedHeaderFetches(h) + InflightHeaderRequests(h) = 1

\* the RequestType recorded for a request of the given method
TypeOfMethod(method) ==
    IF method = "blockchain.scripthash.get_history" THEN "History"
    ELSE IF method = "blockchain.transaction.get" THEN "Transaction"
    ELSE "BlockHeader"

\* the responses on the socket that the reader has not read yet
UnreadResponses == {n \in 1..Len(s2c) : s2c[n].kind = "response"}

\* the response at position n of the socket answers a subscribe
IsSubscribeResponse(n) == "status" \in DOMAIN s2c[n]

\* the reader task reads a response
ResponseStep ==
    /\ s2c # << >>
    /\ s2c' = Tail(s2c)
    /\ Head(s2c).kind = "response"

InflightWhileWaiting ==
    /\ \A req \in server.pending :
           IF req.method = "blockchain.scripthash.subscribe"
           THEN req.id \notin DOMAIN state.inflight_requests
           ELSE /\ req.id \in DOMAIN state.inflight_requests
                /\ state.inflight_requests[req.id].type = TypeOfMethod(req.method)
    /\ \A n \in UnreadResponses :
           IF IsSubscribeResponse(n)
           THEN s2c[n].id \notin DOMAIN state.inflight_requests
           ELSE s2c[n].id \in DOMAIN state.inflight_requests
    /\ \A id \in DOMAIN state.inflight_requests : id < NEXT_ID

\* when the response is read: the entry is gone after the line,
\* whether the response was used or dropped.
InflightRemoved ==
    [][ ResponseStep => Head(s2c).id \notin DOMAIN state'.inflight_requests ]_vars

TrackedHashes(T) == {T.derived_spks[p].hash : p \in DOMAIN T.derived_spks}

\* C12: a Connected event handled while every tracked scripthash is in the
\* subscription set returns no command and leaves the subscription set as it was.
\* (A step that sets lastEvent to Connected and leaves lastCall alone is the
\* handling of a Connected event.)
C12_SubscriptionIdempotence ==
    [][ (/\ lastEvent'.ev = "Connected"
         /\ lastCall' = lastCall
         /\ TrackedHashes(spk_tracker) \subseteq subscribed) =>
           /\ lastEvent'.cmds = << >>
           /\ subscribed' = subscribed ]_vars

\* C12 witness: Connected was handled again after histories had extended the
\* derivation, with everything tracked subscribed already
C12_Witness ==
    /\ lastEvent.ev = "Connected"
    /\ ~panicked
    /\ TrackedHashes(spk_tracker) \subseteq lastEvent.was_subscribed
    /\ Cardinality(lastEvent.was_subscribed) > spk_tracker.lookahead + 1
    /\ \E h \in DOMAIN histories : histories[h] # << >>
    /\ lastEvent.cmds = << >>

\* the hashes of spks that are not in seen, each once, in the order of spks
RECURSIVE FreshInOrder(_, _)
FreshInOrder(spks, seen) ==
    IF spks = << >> THEN << >>
    ELSE IF Head(spks).hash \in seen THEN FreshInOrder(Tail(spks), seen)
    ELSE <<Head(spks).hash>> \o FreshInOrder(Tail(spks), seen \cup {Head(spks).hash})

\* FetchHistory(h) then Subscribe(h) for each h of hs, in order
RECURSIVE FetchThenSubscribe(_)
FetchThenSubscribe(hs) ==
    IF hs = << >> THEN << >>
    ELSE <<FetchHistory(Head(hs)), Subscribe(Head(hs))>> \o FetchThenSubscribe(Tail(hs))

\* number of Subscribe commands in cmds
SubscribeCount(cmds) == Cardinality({n \in 1..Len(cmds) : cmds[n].cmd = "Subscribe"})

\* a step that handles Connected (lastEvent becomes Connected, the tracker API
\* was not called)
ConnectedStep == lastEvent'.ev = "Connected" /\ lastCall' = lastCall

\* what a Connected event returns and does to the subscription set: for the
\* tracked scripthashes not yet subscribed, in all_spks order, FetchHistory
\* followed by Subscribe; all of them are subscribed afterwards
ConnectedEmitsForNew ==
    /\ lastEvent'.cmds =
           FetchThenSubscribe(FreshInOrder(AllSpks(spk_tracker), subscribed))
    /\ subscribed' = subscribed \cup TrackedHashes(spk_tracker)
    /\ \A n \in 1..Len(lastEvent'.cmds) : lastEvent'.cmds[n].hash \notin subscribed

\* C25 (as claimed): Connected emits commands exactly for the tracked
\* scripthashes not yet subscribed, FetchHistory then Subscribe for each in
\* (keychain, index) order, and subscribes them; on the first Connected the
\* number of Subscribe commands equals the number of tracked SPKs.
C25_ConnectedSubscribesAll ==
    [][ ConnectedStep =>
           /\ ConnectedEmitsForNew
           /\ ~connected =>
                  SubscribeCount(lastEvent'.cmds) = Len(AllSpks(spk_tracker)) ]_vars

\* C25 (amended): as above, the number of Subscribe commands of the first
\* Connected being the number of distinct tracked scripthashes: a script that
\* is tracked under two keychains is subscribed once.
C25_ConnectedSubscribesEachHashOnce ==
    [][ ConnectedStep =>
           /\ ConnectedEmitsForNew
           /\ ~connected =>
                  SubscribeCount(lastEvent'.cmds) = Cardinality(TrackedHashes(spk_tracker)) ]_vars

\* C25 witness: the first Connected of an engine whose tracker holds the same
\* scripts under both keychains returned one Subscribe per scripthash
C25_Witness ==
    /\ lastEvent.ev = "Connected"
    /\ lastEvent.was_subscribed = {}
    /\ Len(AllSpks(spk_tracker)) > Cardinality(TrackedHashes(spk_tracker))
    /\ SubscribeCount(lastEvent.cmds) = Cardinality(TrackedHashes(spk_tracker))
    /\ subscribed = TrackedHashes(spk_tracker)
    /\ histories = << >>

\* a step that handles ScriptHashChanged
ChangedStep == lastEvent'.ev = "ScriptHashChanged" /\ lastEvent' # lastEvent

\* number of request_history(hash) calls that took queue q to queue q2: the
\* FetchHistory commands for hash appended to the adapter's command queue
RequestHistoryCalls(q, q2, hash) ==
    IF Len(q2) >= Len(q) /\ SubSeq(q2, 1, Len(q)) = q
    THEN Cardinality({n \in (Len(q) + 1)..Len(q2) : q2[n] = CmdFetchHistory(hash)})
    ELSE 0

\* the orchestrator's process_engine loop run on the commands of the step
ChangedExecuted ==
    ExecuteCommands([orch |-> orch, s |-> state, wallet |-> wallet],
                    [spk_tracker |-> spk_tracker', spk_index_by_hash |-> spk_index_by_hash',
                     script_by_hash |-> script_by_hash', subscribed |-> subscribed',
                     histories |-> histories', connected |-> connected'],
                    lastEvent'.cmds)

\* C26: ScriptHashChanged(sh) returns exactly [FetchHistory(sh)] for every sh,
\* subscribed or not, leaves the subscription set, the history snapshots,
\* script_by_hash and the tracker unchanged, and the orchestrator's execution
\* of the returned commands makes exactly one request_history(sh) call and
\* nothing else on the adapter or the wallet.
C26_ChangedOnlyFetches ==
    [][ ChangedStep =>
           /\ lastEvent'.cmds = <<FetchHistory(lastEvent'.hash)>>
           /\ UNCHANGED <<subscribed, histories, script_by_hash, spk_index_by_hash,
                          spk_tracker, connected>>
           /\ RequestHistoryCalls(state.command_queue, ChangedExecuted.s.command_queue,
                                  lastEvent'.hash) = 1
           /\ Len(ChangedExecuted.s.command_queue) = Len(state.command_queue) + 1
           /\ ChangedExecuted.wallet = wallet ]_vars

\* C26 witness: a connected engine with subscriptions and a stored history
\* handled ScriptHashChanged for a scripthash it never subscribed
C26_Witness ==
    /\ lastEvent.ev = "ScriptHashChanged"
    /\ lastEvent.hash \notin subscribed
    /\ lastEvent.cmds = <<FetchHistory(lastEvent.hash)>>
    /\ subscribed # {}
    /\ histories # << >>

\* a step that handles ScriptHashHistory (the tracker API was not called)
HistoryStep == lastEvent'.ev = "ScriptHashHistory" /\ lastCall' = lastCall

\* positions of the ApplyTransactions commands of cmds
ApplyPositions(cmds) == {n \in 1..Len(cmds) : cmds[n].cmd = "ApplyTransactions"}

\* the command list of the step ends in its only ApplyTransactions, which
\* carries the script recorded for the event's hash and the event's txs
EndsInTheApply ==
    /\ lastEvent'.cmds # << >>
    /\ ApplyPositions(lastEvent'.cmds) = {Len(lastEvent'.cmds)}
    /\ lastEvent'.hash \in DOMAIN script_by_hash'
    /\ lastEvent'.cmds[Len(lastEvent'.cmds)] =
           ApplyTransactions(script_by_hash'[lastEvent'.hash], lastEvent'.txs)

\* the snapshot stored for the event's hash is the txids of the event's txs
SnapshotIsEventTxids ==
    /\ lastEvent'.hash \in DOMAIN histories'
    /\ histories'[lastEvent'.hash] =
           [n \in 1..Len(lastEvent'.txs) |-> ComputeTxid(lastEvent'.txs[n])]

\* C27: every ScriptHashHistory { sh, txs } event returns a command list whose
\* last element is the single ApplyTransactions it contains, with the script
\* recorded for sh and the event's txs in order, also for empty txs, and the
\* snapshot stored for sh afterwards is the txids of the event.
C27_HistoryEndsInApply ==
    [][ HistoryStep => (~panicked' /\ EndsInTheApply /\ SnapshotIsEventTxids) ]_vars

\* the event of the step is no empty-to-non-empty transition: its txs are empty
\* or the snapshot stored for its hash before the step was non-empty
NoFirstUse ==
    \/ lastEvent'.txs = << >>
    \/ (lastEvent'.hash \in DOMAIN histories /\ histories[lastEvent'.hash] # << >>)

\* C28: the engine derives and subscribes only on an empty-to-non-empty
\* transition: a ScriptHashHistory whose txs are empty or whose previous
\* snapshot is non-empty leaves the tracker and the subscription set unchanged
\* and returns exactly one command, an ApplyTransactions.
C28_NoDerivationWithoutFirstUse ==
    [][ (HistoryStep /\ NoFirstUse) =>
           /\ spk_tracker' = spk_tracker
           /\ subscribed' = subscribed
           /\ ~panicked'
           /\ Len(lastEvent'.cmds) = 1
           /\ lastEvent'.cmds[1].cmd = "ApplyTransactions" ]_vars

\* C31: runtime errors never stop the orchestrator: a completed history for a
\* scripthash without a script_by_hash entry, as after a server push for a
\* scripthash that was never enumerated, is handled by handle_event without
\* aborting, and the poll loop goes on.
C31_OrchestratorSurvives ==
    [][ (PollStep /\ Head(state.ready) \in DOMAIN state.history_cache) => ~panicked' ]_vars

\* C7 (as claimed): once Connected has been handled, for every keychain K and
\* index u whose scripthash holds a non-empty history, the tracker holds every
\* index of [0, u + lookahead] of K and each of their scripthashes is subscribed.
\* (lastCall.op = "new": the tracker is the one the engine was built with.)
C7_EngineGapLimit ==
    (connected /\ ~panicked /\ lastCall.op = "new") =>
        \A p \in DOMAIN spk_tracker.derived_spks :
            LET h == spk_tracker.derived_spks[p].hash
            IN  (h \in DOMAIN histories /\ histories[h] # << >>) =>
                    \A i \in 0..(p[2] + spk_tracker.lookahead) :
                        /\ <<p[1], i>> \in DOMAIN spk_tracker.derived_spks
                        /\ spk_tracker.derived_spks[<<p[1], i>>].hash \in subscribed

\* FetchHistory then Subscribe for each pair of ps (ascending), read from tracker T
RECURSIVE FetchSubscribeEach(_, _)
FetchSubscribeEach(T, ps) ==
    IF ps = << >> THEN << >>
    ELSE <<FetchHistory(T.derived_spks[Head(ps)].hash), Subscribe(T.derived_spks[Head(ps)].hash)>>
         \o FetchSubscribeEach(T, Tail(ps))

\* C8 (as claimed): a ScriptHashHistory with non-empty txs for the scripthash at
\* (K, u) whose previous snapshot was empty or absent extends derivation to
\* index u + 1 + lookahead of K and returns, for every scripthash derived by the
\* step, FetchHistory then Subscribe, and then the ApplyTransactions.
C8_DerivationOnFirstUse ==
    (/\ lastEvent.ev = "ScriptHashHistory"
     /\ ~panicked
     /\ lastCall.op = "new"
     /\ lastEvent.txs # << >>
     /\ lastEvent.was_empty
     /\ lastEvent.pos # None) =>
        LET K == lastEvent.pos[1][1]
            u == lastEvent.pos[1][2]
            newly == SortedPairs((DOMAIN spk_tracker.derived_spks) \ lastEvent.derived_before)
        IN  /\ <<K, u + 1 + spk_tracker.lookahead>> \in DOMAIN spk_tracker.derived_spks
            /\ lastEvent.cmds =
                  FetchSubscribeEach(spk_tracker, newly)
                  \o <<ApplyTransactions(script_by_hash[lastEvent.hash], lastEvent.txs)>>

\* ------------------------------------------------------------------ C35
IsPrefix(a, b) == Len(a) <= Len(b) /\ SubSeq(b, 1, Len(a)) = a

\* every command pushed so far, in the order of the pushes: those written,
\* those drained and waiting in flush_outgoing, those still in command_queue
PushOrder ==
    [i \in 1..Len(writer.written) |-> writer.written[i].cmd]
        \o writer.commands \o state.command_queue

\* the JSON-RPC request of a command
RequestOf(c, id) ==
    IF c.cmd = "Subscribe"
    THEN [id |-> id, method |-> "blockchain.scripthash.subscribe",
          param |-> ElectrumScripthash(c.script)]
    ELSE IF c.cmd = "FetchHistory"
    THEN [id |-> id, method |-> "blockchain.scripthash.get_history",
          param |-> EncodeScripthash(c.hash)]
    ELSE IF c.cmd = "FetchTransaction"
    THEN [id |-> id, method |-> "blockchain.transaction.get", param |-> c.txid]
    ELSE [id |-> id, method |-> "blockchain.block.header", param |-> c.height]

\* the k-th write put the request of the k-th command on the socket, under
\* the k-th id
WrittenAsPushed ==
    \A k \in 1..Len(writer.written) :
        /\ writer.written[k].req = RequestOf(writer.written[k].cmd, FirstRequestId + k - 1)
        /\ writer.written[k].req \in server.pending
               \/ \A q \in server.pending : q.id # writer.written[k].req.id

\* C35: the writer sends the commands in the order they were pushed. No step
\* of the orchestrator, the reader or the writer changes the order of the
\* commands pushed so far: a push goes behind every command pushed before it,
\* and a write takes the oldest command not yet written, also when commands
\* were pushed since the flush drained the queue; and every write puts the
\* request of its command on the socket. So a Subscribe is written before
\* every command pushed after it.
C35_WrittenInPushOrder ==
    /\ [][ IsPrefix(PushOrder, PushOrder') ]_vars
    /\ []WrittenAsPushed

\* C35 witness: a Subscribe was written and a request after it, the flush
\* that is sending has commands left, and others were pushed meanwhile
C35_Witness ==
    /\ \E i, j \in 1..Len(writer.written) :
           i < j /\ writer.written[i].cmd.cmd = "Subscribe"
    /\ writer.commands # << >>
    /\ state.command_queue # << >>

\* ------------------------------------------------------------------ C36
\* the reader task reads the response to a get_history whose array is empty
EmptyHistoryStep ==
    /\ ResponseStep
    /\ Head(s2c).id \in DOMAIN state.inflight_requests
    /\ state.inflight_requests[Head(s2c).id].type = "History"
    /\ Head(s2c).result = << >>

\* the orchestrator polls a hash whose bundle is empty
EmptyBundleStep ==
    /\ PollStep
    /\ Head(state.ready) \in DOMAIN state.history_cache
    /\ state.history_cache[Head(state.ready)] = << >>

\* C36: an empty history never touches the wallet. The reader stores an empty
\* bundle for the scripthash of an empty get_history response and appends the
\* scripthash to ready once, queueing no command; when the orchestrator polls
\* a scripthash whose bundle is empty, the engine's commands end in an
\* ApplyTransactions with empty txs and the wallet stays as it was.
C36_EmptyHistoryLeavesWallet ==
    [][ /\ EmptyHistoryStep =>
            LET sh == state.inflight_requests[Head(s2c).id].hash
            IN  /\ state'.history_cache = MapPut(state.history_cache, sh, << >>)
                /\ state'.ready = Append(state.ready, sh)
                /\ state'.command_queue = state.command_queue
                /\ sh \notin DOMAIN state'.remaining_txs
                /\ sh \notin DOMAIN state'.remaining_headers
                /\ wallet' = wallet
        /\ EmptyBundleStep =>
            /\ lastFetch' = [lastFetch' EXCEPT !.ev = "hit", !.b = << >>]
            /\ wallet' = wallet
            /\ ~panicked' =>
                   /\ lastEvent'.cmds # << >>
                   /\ LET c == lastEvent'.cmds[Len(lastEvent'.cmds)]
                      IN  c.cmd = "ApplyTransactions" /\ c.txs = << >>
      ]_vars

\* C36 witness: the wallet holds a transaction, and the orchestrator has just
\* consumed an empty bundle
C36_Witness ==
    /\ lastFetch.ev = "hit"
    /\ lastFetch.b = << >>
    /\ lastEvent.ev = "ScriptHashHistory"
    /\ lastEvent.txs = << >>
    /\ ~panicked

\* ------------------------------------------------------------------ C37
\* the derived indices of every keychain are 0..max
DerivedContiguous ==
    \A k \in Keychains :
        IndicesOf(spk_tracker, k) = {} \/
        IndicesOf(spk_tracker, k) = 0..MaxIndexOf(spk_tracker, k)

\* the last mark_used_and_derive_new stopped at an index already present
StoppedEarly ==
    /\ lastCall.op = "mark_used_and_derive_new"
    /\ Len(lastCall.ret) <= spk_tracker.lookahead

\* C37 (as claimed): after any sequence of insert_descriptor and
\* mark_used_and_derive_new calls the derived indices of each keychain are
\* 0..max with no hole, and when mark_used_and_derive_new has stopped at an
\* index already present, every index of its window is present.
C37_DerivedContiguous ==
    /\ DerivedContiguous
    /\ StoppedEarly =>
           \A i \in (lastCall.index + 1)..(lastCall.index + 1 + spk_tracker.lookahead) :
               i \in IndicesOf(spk_tracker, lastCall.keychain)

\* ------------------------------------------------------------------ C38
\* the scripthashes named by the commands cmds
CommandHashes(cmds) == {cmds[n].hash : n \in 1..Len(cmds)}

\* a Connected event handled by an engine that handled one before
ReconnectStep == ConnectedStep /\ connected

\* C38 (as claimed): a Connected that follows an earlier Connected emits
\* FetchHistory and Subscribe for every current SPK, the subscription set
\* having been cleared.
C38_ReconnectResubscribesAll ==
    [][ ReconnectStep =>
           /\ lastEvent'.cmds =
                  FetchThenSubscribe(FreshInOrder(AllSpks(spk_tracker), {}))
           /\ subscribed' = TrackedHashes(spk_tracker) ]_vars

\* C38 (amended): the subscription set is never cleared. No step removes a
\* scripthash from it, and a Connected that follows an earlier Connected emits
\* FetchHistory and Subscribe for the tracked scripthashes that are not in the
\* set, and nothing for those that are.
C38_SubscriptionsKept ==
    [][ /\ subscribed \subseteq subscribed'
        /\ ReconnectStep =>
               /\ CommandHashes(lastEvent'.cmds) = TrackedHashes(spk_tracker) \ subscribed
               /\ Len(lastEvent'.cmds) = 2 * Cardinality(TrackedHashes(spk_tracker) \ subscribed)
      ]_vars

\* C38 witness: a later Connected met scripthashes subscribed before, still
\* tracked, and emitted commands only for the others
C38_Witness ==
    /\ lastEvent.ev = "Connected"
    /\ ~panicked
    /\ lastEvent.was_subscribed \cap TrackedHashes(spk_tracker) # {}
    /\ lastEvent.cmds # << >>
    /\ CommandHashes(lastEvent.cmds) \cap lastEvent.was_subscribed = {}

\* ------------------------------------------------------------------ C39
\* C39 (as claimed): every Subscribe(sh) the engine returns has
\* script_for_hash(sh) defined when the orchestrator executes it, whatever
\* descriptors were inserted into the tracker before.
C39_SubscribeHasScript ==
    lastEvent.ev # "none" =>
        \A n \in 1..Len(lastEvent.cmds) :
            lastEvent.cmds[n].cmd = "Subscribe" =>
                ScriptForHash(EngineState, lastEvent.cmds[n].hash) # None

\* ------------------------------------------------------------------ C40
\* C40 (as claimed): after any sequence of events on an engine whose tracker
\* nobody else has changed, every scripthash h of spk_index_by_hash is stored
\* under the (keychain, index) that index_of_spk_hash(h) returns.
C40_IndexMapAgreesWithTracker ==
    lastCall.op = "new" =>
        \A h \in DOMAIN spk_index_by_hash :
            IndexOfSpkHash(spk_tracker, h) = Some(spk_index_by_hash[h])

=============================================================================
